---------------------------- MODULE Spec2Model ----------------------------
(***************************************************************************)
(* Attendance event processing of api-face-saraspatika.                    *)
(*                                                                         *)
(* The model follows app/tasks/absensi_tasks.py: every execution of        *)
(* process_checkin_task_v2 / process_checkout_task_v2 is a sequence of     *)
(* steps, one per round trip to the relational store, so that executions   *)
(* running on different workers interleave between their statements.       *)
(* The table "absensi" of app/db/models.py is the sequence absensi; the    *)
(* primary key id_absensi (a fresh uuid4 in the code) is the position of   *)
(* the row in the sequence.                                                *)
(***************************************************************************)
EXTENDS Integers, Sequences, FiniteSets, TLC

\* ------------------------------------------------------------------ bounds
\* Number of task executions (deliveries of a task to a worker) in a run.
NumExec == 3
\* Event timestamps carried by a payload range over 0..MaxTime.
MaxTime == 1
\* Row ids a check-out payload may name range over 1..MaxId.
MaxId == 2
\* Worker losses in a run.
MaxCrashes == 1
\* Failed round trips to the relational store in a run.
MaxFailures == 1
\* Baseline images in the folder of a user.
MaxBaselines == 4
\* Faces the detector returns for an image.
MaxFaces == 2
\* Pixel coordinates of a bounding box range over 0..MaxCoord.
MaxCoord == 3
\* HTTP requests handled in a run.
MaxRequests == 2
\* Calls of can() in a run.
NumCalls == 3
\* The clock of the resolver's process runs from 0 to MaxClock.
MaxClock == 3
\* Committed changes of the permission store in a run.
MaxChanges == 1
\* _CACHE_TTL (60 seconds) in clock ticks of 30 seconds.
CACHE_TTL == 2
\* Event timestamps of the lateness decision range over 0..MaxEventTime.
MaxEventTime == 5

\* ------------------------------------------------------------- null values
\* Python's None / SQL NULL, one per column type.
NoId == 0
NoTime == -1
NoCoord == 0
NoCorr == "None"
NoShift == "None"
NoLoc == "None"
NoStatus == "None"
NoMessage == "None"

\* ------------------------------------------------------------ input domains
Exec == 1..NumExec
Calls == 1..NumCalls
Users == {"u1", "u2"}
Corrs == {"abc123"}
Times == 0..MaxTime
AbsensiIds == 1..MaxId
\* Length of a calendar day in model time units: date and time of day of a
\* timestamp t are t \div DayLen and t % DayLen.
DayLen == 3
DateOf(t) == t \div DayLen
TimeOf(t) == t % DayLen

\* A location as the routes put it into the payload: {"id", "lat", "lng"}.
\* The device reports its position with the event timestamp.
LocationAt(t) ==
    IF t % 2 = 0 THEN [id |-> "L1", lat |-> 1, lng |-> 1]
                 ELSE [id |-> "L2", lat |-> 2, lng |-> 2]

\* StatusAbsensi
TEPAT == "TEPAT"
TERLAMBAT == "TERLAMBAT"

\* Result messages of the tasks.
MsgCheckinSaved == "Check-in berhasil disimpan"
MsgCheckinReplay == "Check-in sudah pernah disimpan"
MsgCorrelationUsed == "correlation_id sudah dipakai user lain."
MsgIntegrityError == "IntegrityError: duplicate entry for key correlation_id"
MsgCheckoutSaved == "Check-out berhasil disimpan"
MsgCheckoutReplay == "Check-out sudah pernah disimpan"
MsgNotFound == "Absensi tidak ditemukan untuk absensi_id atau correlation_id."
MsgNotFoundForUser == "Absensi tidak ditemukan untuk user tersebut."
\* str(e) of an OperationalError of the database driver.
MsgOperationalError == "OperationalError: lost connection to the server"

\* The shift schedule (jadwal_shift_kerja joined with pola_jam_kerja), read
\* only by the tasks: u1 works on day 0 from time of day 0, u2 has no shift.
JadwalShiftKerja ==
    { [id_jadwal_shift |-> "s1", id_user |-> "u1", tanggal |-> 0,
       jam_mulai_kerja |-> 0] }

VARIABLES
    absensi,    \* the table absensi: a sequence of rows
    pc,         \* pc[e]: where execution e stands
    payload,    \* payload[e]: the task payload of execution e
    jadwal,     \* jadwal[e]: the local variable jadwal of the check-in
    rec,        \* rec[e]: id of the row the check-out loaded (NoId: none)
    result,     \* result[e]: the dictionary the task returns
    atStart,    \* atStart[e]: the table as it was when e started (history)
    \* the lateness decision of the check-in, on its own
    schedule,   \* the table jadwal_shift_kerja joined with pola_jam_kerja
    event,      \* the check-in payload the decision was made for
    written,    \* the row Absensi(...) built for it
    \* the routes /checkin and /checkout (app/blueprints/absensi/routes.py)
    request,    \* the HTTP request being handled
    rpc,        \* where the handling of the request stands
    flask_g,    \* flask.g.current_token_payload: the "sub" of the token
    verified,   \* what verify_user returned for the request
    steps,      \* the stages the request has passed, in order (history)
    response,   \* status code of the response (0: none yet)
    served,     \* number of requests answered
    queue,      \* the task payloads handed to the broker by .delay()
    \* the permission resolver (app/utils/rbac_utils.py)
    store,      \* user_roles, role_permissions, user_permission_overrides
    perm_cache, \* _perm_cache: user id -> entry (NoEntry: no entry)
    clock,      \* time.time()
    call,       \* call[c]: the state of the c-th call of can()
    changedAt,  \* clock value of the last committed change of the store
    changes,    \* number of committed changes of the store
    invalidated, \* users whose entry was cleared since the last change
    \* verify_user and the object storage (app/services/face_service.py)
    folder,     \* face_detection/u1 in the object storage
    vres,       \* the last call of verify_user and its outcome (history)
    \* get_embedding on the output of the detector
    faces,      \* what engine.get(img) returned: a sequence of faces
    chosen      \* the face get_embedding took the embedding of

taskVars == <<absensi, pc, payload, jadwal, rec, result, atStart>>
latenessVars == <<schedule, event, written>>
routeVars == <<request, rpc, flask_g, verified, steps, response, served, queue>>
resolverVars ==
    <<store, perm_cache, clock, call, changedAt, changes, invalidated>>
detectVars == <<faces, chosen>>
verifyVars == <<folder, vres, detectVars>>
vars == <<taskVars, latenessVars, routeVars, resolverVars, verifyVars>>

\* -------------------------------------------------------------- payloads
NoPayload ==
    [kind |-> "none", user_id |-> "None", correlation_id |-> NoCorr,
     absensi_id |-> NoId, now_local_iso |-> NoTime, face_verified |-> TRUE]

\* What routes.checkin enqueues, after the task has parsed it.
CheckinPayloads ==
    { [kind |-> "checkin", user_id |-> u, correlation_id |-> c,
       absensi_id |-> NoId, now_local_iso |-> t, face_verified |-> TRUE] :
      u \in Users, c \in Corrs \cup {NoCorr}, t \in Times }

\* What routes.checkout enqueues, after the task has parsed it: at least one
\* of absensi_id and correlation_id is present.
CheckoutPayloads ==
    { p \in [kind : {"checkout"}, user_id : Users,
             correlation_id : Corrs \cup {NoCorr},
             absensi_id : AbsensiIds \cup {NoId},
             now_local_iso : Times, face_verified : {TRUE}] :
      p.absensi_id # NoId \/ p.correlation_id # NoCorr }

\* A token payload without the claim "sub" (and no token payload at all).
NoSub == "None"
\* No bearer token in the request, and a token _verify_jwt rejects (bad
\* signature, expired): it may claim any subject.
NoToken == [present |-> FALSE, valid |-> FALSE, sub |-> NoSub]
BadToken == [present |-> TRUE, valid |-> FALSE, sub |-> "u1"]
\* No file in the request.
NoImage == "None"

NoRequest ==
    [kind |-> "none", token |-> NoToken, user_id |-> "", image |-> NoImage,
     location_id |-> "", absensi_id |-> NoId, correlation_id |-> NoCorr]

NoResult ==
    [status |-> "none", message |-> NoMessage, absensi_id |-> NoId,
     idempotent |-> FALSE]

\* The dictionaries the tasks return; a key the code leaves out is the null
\* value here (idempotent: FALSE).
Ok(msg, id, idem) ==
    [status |-> "ok", message |-> msg, absensi_id |-> id, idempotent |-> idem]
Error(msg) ==
    [status |-> "error", message |-> msg, absensi_id |-> NoId,
     idempotent |-> FALSE]

\* ----------------------------------------------------------------- queries
\* s.query(Absensi).filter(Absensi.correlation_id == c).first(): the id of
\* the row, NoId when there is none.
ByCorrelation(tbl, c) ==
    IF \E i \in DOMAIN tbl : tbl[i].correlation_id = c
    THEN CHOOSE i \in DOMAIN tbl : tbl[i].correlation_id = c
    ELSE NoId

\* s.query(Absensi).filter(correlation_id == c, id_user == u).first()
ByCorrelationAndUser(tbl, c, u) ==
    IF \E i \in DOMAIN tbl : tbl[i].correlation_id = c /\ tbl[i].id_user = u
    THEN CHOOSE i \in DOMAIN tbl :
             tbl[i].correlation_id = c /\ tbl[i].id_user = u
    ELSE NoId

\* s.get(Absensi, id)
GetAbsensi(tbl, id) == IF id \in DOMAIN tbl THEN id ELSE NoId

\* Lines 102-110 on the schedule tbl: the shift of user u whose tanggal
\* falls on date d, NoShift when there is none.
JadwalIn(tbl, u, d) ==
    IF \E j \in tbl : j.id_user = u /\ DateOf(j.tanggal) = d
    THEN (CHOOSE j \in tbl : j.id_user = u /\ DateOf(j.tanggal) = d)
    ELSE [id_jadwal_shift |-> NoShift, id_user |-> u, tanggal |-> d,
          jam_mulai_kerja |-> NoTime]

\* The shift of user u on date d in the schedule the tasks run against.
JadwalFor(u, d) == JadwalIn(JadwalShiftKerja, u, d)

\* StatusKehadiran with ">=" for the ">" of line 117.
StatusKehadiranNotStrict(j, t) ==
    IF j.id_jadwal_shift # NoShift /\ j.jam_mulai_kerja # NoTime
       /\ TimeOf(t) >= j.jam_mulai_kerja
    THEN TERLAMBAT ELSE TEPAT

\* status_kehadiran of the check-in.
StatusKehadiran(j, t) ==
    IF j.id_jadwal_shift # NoShift /\ j.jam_mulai_kerja # NoTime
       /\ TimeOf(t) > j.jam_mulai_kerja
    THEN TERLAMBAT ELSE TEPAT

\* The row Absensi(...) the check-in builds; id is the generated primary key.
NewAbsensi(id, p, j) ==
    [id_absensi |-> id,
     id_user |-> p.user_id,
     id_jadwal_shift |-> j.id_jadwal_shift,
     correlation_id |-> p.correlation_id,
     id_lokasi_datang |-> LocationAt(p.now_local_iso).id,
     id_lokasi_pulang |-> NoLoc,
     waktu_masuk |-> p.now_local_iso,
     waktu_pulang |-> NoTime,
     status_masuk |-> StatusKehadiran(j, p.now_local_iso),
     status_pulang |-> NoStatus,
     in_latitude |-> LocationAt(p.now_local_iso).lat,
     in_longitude |-> LocationAt(p.now_local_iso).lng,
     out_latitude |-> NoCoord,
     out_longitude |-> NoCoord,
     face_verified_masuk |-> p.face_verified,
     face_verified_pulang |-> FALSE]

\* No row built yet.
NoRow == NewAbsensi(NoId, NoPayload, JadwalIn({}, "None", 0))

\* A table without the unique constraint.
NoUniqueConstraint(tbl, c) == FALSE

\* The unique constraint on absensi.correlation_id: NULLs never collide.
UniqueViolation(tbl, c) ==
    c # NoCorr /\ \E i \in DOMAIN tbl : tbl[i].correlation_id = c

\* ------------------------------------------------------------------- Init
TasksIdle ==
    /\ absensi = << >>
    /\ pc = [e \in Exec |-> "idle"]
    /\ payload = [e \in Exec |-> NoPayload]
    /\ jadwal = [e \in Exec |-> JadwalFor("None", 0)]
    /\ rec = [e \in Exec |-> NoId]
    /\ result = [e \in Exec |-> NoResult]
    /\ atStart = [e \in Exec |-> << >>]

\* No lateness decision is under way.
LatenessIdle ==
    /\ schedule = JadwalShiftKerja
    /\ event = NoPayload
    /\ written = NoRow

\* No request has arrived.
RoutesIdle ==
    /\ request = NoRequest
    /\ rpc = "idle"
    /\ flask_g = NoSub
    /\ verified = "none"
    /\ steps = << >>
    /\ response = 0
    /\ served = 0
    /\ queue = {}

\* ------------------------------------------------- the permission store
\* The table permissions: resource and action as stored.
Permissions ==
    { [id_permission |-> "p1", resource |-> "absensi", action |-> "create"],
      [id_permission |-> "p2", resource |-> "Absensi", action |-> "UPDATE"],
      [id_permission |-> "p3", resource |-> "lokasi", action |-> "read"] }
PermIds == {p.id_permission : p \in Permissions}
PermissionById(id) == CHOOSE p \in Permissions : p.id_permission = id
\* The order in which a query returns rows of permissions.
PermOrder == <<"p1", "p2", "p3">>
Roles == {"guru", "admin"}

\* str.lower() on the strings of the model.
Lower(str) ==
    IF str \in {"Absensi", "ABSENSI"} THEN "absensi"
    ELSE IF str \in {"UPDATE", "Update"} THEN "update"
    ELSE IF str = "CREATE" THEN "create"
    ELSE IF str = "LOKASI" THEN "lokasi"
    ELSE IF str = "READ" THEN "read"
    ELSE str

\* _perm_key without .lower(): the key as it is written.
PermKeyAsWritten(resource, action) == <<resource, action>>

\* _perm_key (lines 53-55): the key "resource:action" in lower case, as the
\* pair of its two parts.
PermKey(resource, action) == <<Lower(resource), Lower(action)>>

\* The keys the routes ask for.
Keys == {PermKey("absensi", "create"), PermKey("absensi", "update"),
         PermKey("lokasi", "read")}

\* Lines 77-86: the keys of the permissions of the roles of user u.
RolePerms(st, u) ==
    { p \in Permissions :
        \E r \in st.user_roles[u] : p.id_permission \in st.role_permissions[r] }
RoleKeys(st, u) ==
    { PermKey(p.resource, p.action) :
        p \in {q \in RolePerms(st, u) : q.resource # "" /\ q.action # ""} }

\* Lines 89-94: the override rows of user u, in the order of the query.
Overrides(st, u) ==
    LET Has(id) == st.overrides[u][id] # "none"
        Row(id) == [grant |-> st.overrides[u][id] = "grant",
                    resource |-> PermissionById(id).resource,
                    action |-> PermissionById(id).action]
        F[i \in 0..Len(PermOrder)] ==
            IF i = 0 THEN << >>
            ELSE IF Has(PermOrder[i]) THEN Append(F[i - 1], Row(PermOrder[i]))
            ELSE F[i - 1]
    IN  F[Len(PermOrder)]

\* ApplyOverrides that adds the key whatever the override says.
RECURSIVE ApplyOverridesAllGrant(_, _)
ApplyOverridesAllGrant(perm_set, rows) ==
    IF rows = << >> THEN perm_set
    ELSE LET o == Head(rows)
             k == PermKey(o.resource, o.action)
         IN  ApplyOverridesAllGrant(
                 IF o.resource = "" \/ o.action = "" THEN perm_set
                 ELSE perm_set \cup {k},
                 Tail(rows))

\* Lines 95-102: the loop over the override rows.
RECURSIVE ApplyOverrides(_, _)
ApplyOverrides(perm_set, rows) ==
    IF rows = << >> THEN perm_set
    ELSE LET o == Head(rows)
             k == PermKey(o.resource, o.action)
         IN  ApplyOverrides(
                 IF o.resource = "" \/ o.action = "" THEN perm_set
                 ELSE IF o.grant THEN perm_set \cup {k}
                 ELSE perm_set \ {k},
                 Tail(rows))

\* The permission set _compute_user_perm_set builds (lines 73-102).
ComputeUserPermSet(st, u) == ApplyOverrides(RoleKeys(st, u), Overrides(st, u))

\* What the store holds for u2 in every store of the model: the role admin
\* and a grant override for lokasi:read.
OverridesOfU2 == [id \in PermIds |-> IF id = "p3" THEN "grant" ELSE "none"]

\* The stores: the roles of u1, the permissions of the two roles and the
\* overrides of u1 vary.
Stores ==
    { [user_roles |-> [u \in Users |-> IF u = "u1" THEN ur ELSE {"admin"}],
       role_permissions |-> rp,
       overrides |-> [u \in Users |-> IF u = "u1" THEN ov ELSE OverridesOfU2]] :
      ur \in SUBSET Roles, rp \in [Roles -> SUBSET PermIds],
      ov \in [PermIds -> {"none", "grant", "deny"}] }

\* The role guru may create and update absensi; u1 is a guru.
StoreGranted ==
    [user_roles |-> [u \in Users |-> IF u = "u1" THEN {"guru"} ELSE {"admin"}],
     role_permissions |->
         [r \in Roles |-> IF r = "guru" THEN {"p1", "p2"} ELSE PermIds],
     overrides |->
         [u \in Users |-> IF u = "u1" THEN [id \in PermIds |-> "none"]
                          ELSE OverridesOfU2]]

\* StoreGranted with a deny override of u1 for absensi:create.
StoreDenied ==
    [StoreGranted EXCEPT !.overrides["u1"]["p1"] = "deny"]

NoEntry == [perm_set |-> {}, expires |-> NoTime, stored |-> NoTime]
\* A call of can() through require_permission: the token's subject, the
\* user id and the key asked for, the local perm_set and the answer; the
\* other fields are history: whether the call started _CACHE_TTL or more
\* after the last change of the store, whether it started after the user's
\* entry had been cleared following that change, and whether the call
\* queried the store.
NoCall ==
    [pc |-> "idle", sub |-> NoSub, user_id |-> "", key |-> PermKey("", ""),
     perm_set |-> {}, answer |-> "none", afterTTL |-> FALSE,
     afterClear |-> FALSE, readStore |-> FALSE]

\* The resolver has not been called.
ResolverIdle ==
    /\ store = StoreGranted
    /\ perm_cache = [u \in Users \cup {""} |-> NoEntry]
    /\ clock = 0
    /\ call = [c \in Calls |-> NoCall]
    /\ changedAt = NoTime
    /\ changes = 0
    /\ invalidated = {}

\* --------------------------------------------------- the object storage
\* face_detection/u1 does not exist.  Embeddings are vectors of dimension
\* one; << >> stands for no embedding.npy and for Python's None.
NoFolder == [exists |-> FALSE, embedding |-> << >>, baselines |-> << >>]

\* verify_user has not been called.
NoVerify ==
    [image |-> "none", metric |-> "none", threshold |-> 0, fault |-> "none",
     exc |-> "none", cause |-> "none", used |-> "none", score |-> 0,
     match |-> FALSE, status |-> 0]

\* get_embedding has not been called.
NotCalled == [called |-> FALSE, index |-> 0]

\* Nobody is enrolled and verify_user has not been called.
VerifyIdle ==
    /\ folder = NoFolder
    /\ vres = NoVerify
    /\ faces = << >>
    /\ chosen = NotCalled

Init ==
    TasksIdle /\ LatenessIdle /\ RoutesIdle /\ ResolverIdle /\ VerifyIdle

\* Return of the task function: the result goes to the task runner, which
\* acknowledges the task.
Return(e, r) ==
    /\ pc' = [pc EXCEPT ![e] = "done"]
    /\ result' = [result EXCEPT ![e] = r]

\* A worker takes a task with payload p off the queue and enters the task
\* function (lines 56-64, 191-198).  Executions are interchangeable, so
\* they are started in the order of their numbers.
Begin(e, p) ==
    /\ pc[e] = "idle"
    /\ IF e = 1 THEN TRUE ELSE pc[e - 1] # "idle"
    /\ payload' = [payload EXCEPT ![e] = p]
    /\ atStart' = [atStart EXCEPT ![e] = absensi]

\* ---------------------------------------------------------------- check-in
\* CheckinLookup without the owner test of line 76: any row found by the
\* correlation id is a replay.
CheckinLookupNoOwnerTest(e, p) ==
    /\ Begin(e, p)
    /\ LET existing == IF p.correlation_id # NoCorr
                       THEN ByCorrelation(absensi, p.correlation_id)
                       ELSE NoId
       IN  IF existing # NoId
           THEN /\ Return(e, Ok(MsgCheckinReplay, existing, TRUE))
                /\ UNCHANGED jadwal
           ELSE /\ jadwal' = [jadwal EXCEPT
                       ![e] = JadwalFor(p.user_id, DateOf(p.now_local_iso))]
                /\ pc' = [pc EXCEPT ![e] = "ci_commit"]
                /\ UNCHANGED result
    /\ UNCHANGED <<absensi, rec>>

\* CheckinLookup answering a replay by the same user with an error.
CheckinLookupReplayIsError(e, p) ==
    /\ Begin(e, p)
    /\ LET existing == IF p.correlation_id # NoCorr
                       THEN ByCorrelation(absensi, p.correlation_id)
                       ELSE NoId
       IN  IF existing # NoId
           THEN /\ Return(e, Error(MsgCorrelationUsed))
                /\ UNCHANGED jadwal
           ELSE /\ jadwal' = [jadwal EXCEPT
                       ![e] = JadwalFor(p.user_id, DateOf(p.now_local_iso))]
                /\ pc' = [pc EXCEPT ![e] = "ci_commit"]
                /\ UNCHANGED result
    /\ UNCHANGED <<absensi, rec>>

\* CheckinLookup where a replay by the same user stores the replayed
\* payload over the row (the last payload wins).
CheckinLookupReplayOverwrites(e, p) ==
    /\ Begin(e, p)
    /\ LET existing == IF p.correlation_id # NoCorr
                       THEN ByCorrelation(absensi, p.correlation_id)
                       ELSE NoId
       IN  IF existing # NoId
           THEN /\ IF absensi[existing].id_user # p.user_id
                   THEN /\ Return(e, Error(MsgCorrelationUsed))
                        /\ UNCHANGED absensi
                   ELSE /\ Return(e, Ok(MsgCheckinReplay, existing, TRUE))
                        /\ absensi' = [absensi EXCEPT ![existing] =
                               NewAbsensi(existing, p,
                                   JadwalFor(p.user_id,
                                             DateOf(p.now_local_iso)))]
                /\ UNCHANGED jadwal
           ELSE /\ jadwal' = [jadwal EXCEPT
                       ![e] = JadwalFor(p.user_id, DateOf(p.now_local_iso))]
                /\ pc' = [pc EXCEPT ![e] = "ci_commit"]
                /\ UNCHANGED <<absensi, result>>
    /\ UNCHANGED rec

\* CheckinLookup that, without a correlation id, takes a row of the same
\* user and event time for a replay.
CheckinLookupDedupsByEvent(e, p) ==
    /\ Begin(e, p)
    /\ LET same == {i \in DOMAIN absensi :
                       /\ absensi[i].id_user = p.user_id
                       /\ absensi[i].waktu_masuk = p.now_local_iso}
           existing == IF p.correlation_id # NoCorr
                       THEN ByCorrelation(absensi, p.correlation_id)
                       ELSE IF same # {} THEN CHOOSE i \in same : TRUE
                       ELSE NoId
       IN  IF existing # NoId
           THEN /\ IF absensi[existing].id_user # p.user_id
                   THEN Return(e, Error(MsgCorrelationUsed))
                   ELSE Return(e, Ok(MsgCheckinReplay, existing, TRUE))
                /\ UNCHANGED jadwal
           ELSE /\ jadwal' = [jadwal EXCEPT
                       ![e] = JadwalFor(p.user_id, DateOf(p.now_local_iso))]
                /\ pc' = [pc EXCEPT ![e] = "ci_commit"]
                /\ UNCHANGED result
    /\ UNCHANGED <<absensi, rec>>

\* Lines 56-118: the task starts with the idempotency lookup and, when
\* nothing is found, the shift lookup (the tasks never write the schedule).
CheckinLookup(e, p) ==
    /\ Begin(e, p)
    /\ LET existing == IF p.correlation_id # NoCorr
                       THEN ByCorrelation(absensi, p.correlation_id)
                       ELSE NoId
       IN  IF existing # NoId
           THEN /\ IF absensi[existing].id_user # p.user_id
                   THEN Return(e, Error(MsgCorrelationUsed))
                   ELSE Return(e, Ok(MsgCheckinReplay, existing, TRUE))
                /\ UNCHANGED jadwal
           ELSE /\ jadwal' = [jadwal EXCEPT
                       ![e] = JadwalFor(p.user_id, DateOf(p.now_local_iso))]
                /\ pc' = [pc EXCEPT ![e] = "ci_commit"]
                /\ UNCHANGED result
    /\ UNCHANGED <<absensi, rec>>

\* Inserted with line 124 left out: the row is stored without the
\* correlation id.
InsertedWithoutCorrelation(tbl, e) ==
    Append(tbl, [NewAbsensi(Len(tbl) + 1, payload[e], jadwal[e])
                     EXCEPT !.correlation_id = NoCorr])

\* The table after the INSERT of the row execution e built (lines 120-133).
Inserted(tbl, e) ==
    Append(tbl, NewAbsensi(Len(tbl) + 1, payload[e], jadwal[e]))

\* Lines 120-135 and 160-166: s.add(rec); s.commit().  The INSERT and the
\* COMMIT are one call; the store enforces the unique constraint.
CheckinCommit(e) ==
    /\ pc[e] = "ci_commit"
    /\ IF UniqueViolation(absensi, payload[e].correlation_id)
       THEN \* IntegrityError, s.rollback()
            /\ pc' = [pc EXCEPT ![e] = "ci_requery"]
            /\ UNCHANGED <<absensi, result>>
       ELSE /\ absensi' = Inserted(absensi, e)
            /\ Return(e, Ok(MsgCheckinSaved, Len(absensi) + 1, FALSE))
    /\ UNCHANGED <<payload, jadwal, rec, atStart>>

\* CheckinRequery without the owner test of line 145.
CheckinRequeryNoOwnerTest(e) ==
    /\ pc[e] = "ci_requery"
    /\ LET p == payload[e]
           existing == IF p.correlation_id # NoCorr
                       THEN ByCorrelation(absensi, p.correlation_id)
                       ELSE NoId
       IN  IF existing # NoId
           THEN Return(e, Ok(MsgCheckinReplay, existing, TRUE))
           ELSE Return(e, Error(MsgIntegrityError))
    /\ UNCHANGED <<absensi, payload, jadwal, rec, atStart>>

\* CheckinRequery without the recovery of lines 139-157: the uniqueness
\* violation is always re-raised.
CheckinRequeryNoRecovery(e) ==
    /\ pc[e] = "ci_requery"
    /\ Return(e, Error(MsgIntegrityError))
    /\ UNCHANGED <<absensi, payload, jadwal, rec, atStart>>

\* Lines 136-158 and 167-170: after the rollback, read again by
\* correlation id; the re-raised IntegrityError becomes an error result.
CheckinRequery(e) ==
    /\ pc[e] = "ci_requery"
    /\ LET p == payload[e]
           existing == IF p.correlation_id # NoCorr
                       THEN ByCorrelation(absensi, p.correlation_id)
                       ELSE NoId
       IN  IF existing # NoId /\ absensi[existing].id_user = p.user_id
           THEN Return(e, Ok(MsgCheckinReplay, existing, TRUE))
           ELSE Return(e, Error(MsgIntegrityError))
    /\ UNCHANGED <<absensi, payload, jadwal, rec, atStart>>

\* --------------------------------------------------------------- check-out
\* CheckoutDecide without the owner test of line 225.
CheckoutDecideNoOwnerTest(e, p, r) ==
    IF r = NoId
    THEN /\ Return(e, Error(MsgNotFound))
         /\ UNCHANGED rec
    ELSE IF absensi[r].waktu_pulang # NoTime
    THEN /\ Return(e, Ok(MsgCheckoutReplay, r, TRUE))
         /\ UNCHANGED rec
    ELSE /\ rec' = [rec EXCEPT ![e] = r]
         /\ pc' = [pc EXCEPT ![e] = "co_commit"]
         /\ UNCHANGED result

\* CheckoutDecide without the replay test of line 238.
CheckoutDecideNoReplayTest(e, p, r) ==
    IF r = NoId
    THEN /\ Return(e, Error(MsgNotFound))
         /\ UNCHANGED rec
    ELSE IF absensi[r].id_user # p.user_id
    THEN /\ Return(e, Error(MsgNotFoundForUser))
         /\ UNCHANGED rec
    ELSE /\ rec' = [rec EXCEPT ![e] = r]
         /\ pc' = [pc EXCEPT ![e] = "co_commit"]
         /\ UNCHANGED result

\* CheckoutDecide answering a missing row like a replay.
CheckoutDecideMissingIsReplay(e, p, r) ==
    IF r = NoId
    THEN /\ Return(e, Ok(MsgCheckoutReplay, NoId, TRUE))
         /\ UNCHANGED rec
    ELSE IF absensi[r].id_user # p.user_id
    THEN /\ Return(e, Error(MsgNotFoundForUser))
         /\ UNCHANGED rec
    ELSE IF absensi[r].waktu_pulang # NoTime
    THEN /\ Return(e, Ok(MsgCheckoutReplay, r, TRUE))
         /\ UNCHANGED rec
    ELSE /\ rec' = [rec EXCEPT ![e] = r]
         /\ pc' = [pc EXCEPT ![e] = "co_commit"]
         /\ UNCHANGED result

\* Lines 214-250, on the row the lookups left in rec (NoId: none): not
\* found, owned by another user, already checked out, or go on to update.
CheckoutDecide(e, p, r) ==
    IF r = NoId
    THEN /\ Return(e, Error(MsgNotFound))
         /\ UNCHANGED rec
    ELSE IF absensi[r].id_user # p.user_id
    THEN /\ Return(e, Error(MsgNotFoundForUser))
         /\ UNCHANGED rec
    ELSE IF absensi[r].waktu_pulang # NoTime
    THEN /\ Return(e, Ok(MsgCheckoutReplay, r, TRUE))
         /\ UNCHANGED rec
    ELSE /\ rec' = [rec EXCEPT ![e] = r]
         /\ pc' = [pc EXCEPT ![e] = "co_commit"]
         /\ UNCHANGED result

\* CheckoutGet that goes on to the query by correlation id also when the
\* row found by absensi_id belongs to another user.
CheckoutGetFallsBackOnOwner(e, p) ==
    /\ Begin(e, p)
    /\ p.absensi_id # NoId
    /\ LET r == GetAbsensi(absensi, p.absensi_id)
       IN  IF (r = NoId \/ absensi[r].id_user # p.user_id)
              /\ p.correlation_id # NoCorr
           THEN /\ pc' = [pc EXCEPT ![e] = "co_query"]
                /\ UNCHANGED <<rec, result>>
           ELSE CheckoutDecide(e, p, r)
    /\ UNCHANGED <<absensi, jadwal>>

\* Lines 191-203: the task starts with rec = s.get(Absensi, absensi_id)
\* when the payload has an absensi_id; line 204 sends the execution on to
\* the query by correlation id when that found nothing.
CheckoutGet(e, p) ==
    /\ Begin(e, p)
    /\ p.absensi_id # NoId
    /\ LET r == GetAbsensi(absensi, p.absensi_id)
       IN  IF r = NoId /\ p.correlation_id # NoCorr
           THEN /\ pc' = [pc EXCEPT ![e] = "co_query"]
                /\ UNCHANGED <<rec, result>>
           ELSE CheckoutDecide(e, p, r)
    /\ UNCHANGED <<absensi, jadwal>>

\* Lines 191-212 for a payload without absensi_id: the task starts with
\* the query by (correlation_id, id_user).
CheckoutQueryFirst(e, p) ==
    /\ Begin(e, p)
    /\ p.absensi_id = NoId
    /\ CheckoutDecide(e, p, IF p.correlation_id # NoCorr
                            THEN ByCorrelationAndUser(absensi,
                                     p.correlation_id, p.user_id)
                            ELSE NoId)
    /\ UNCHANGED <<absensi, jadwal>>

\* Lines 204-212 after s.get found nothing.
CheckoutQuery(e) ==
    /\ pc[e] = "co_query"
    /\ LET p == payload[e]
       IN  CheckoutDecide(e, p, ByCorrelationAndUser(absensi,
                                    p.correlation_id, p.user_id))
    /\ UNCHANGED <<absensi, payload, jadwal, atStart>>

\* pola_jam_kerja.jam_selesai_kerja of a shift, as a time of day: the shift
\* s1 ends at time of day 1; NoTime for a record without shift.
JamSelesaiKerja(id_jadwal_shift) ==
    IF id_jadwal_shift = "s1" THEN 1 ELSE NoTime

\* CheckedOut with a check-out status derived from the end of the shift: a
\* check-out before the scheduled end is not on time.
CheckedOutByShiftEnd(row, p) ==
    [row EXCEPT !.waktu_pulang = p.now_local_iso,
                !.id_lokasi_pulang = LocationAt(p.now_local_iso).id,
                !.out_latitude = LocationAt(p.now_local_iso).lat,
                !.out_longitude = LocationAt(p.now_local_iso).lng,
                !.face_verified_pulang = p.face_verified,
                !.status_pulang =
                    IF JamSelesaiKerja(row.id_jadwal_shift) # NoTime
                       /\ TimeOf(p.now_local_iso)
                              < JamSelesaiKerja(row.id_jadwal_shift)
                    THEN TERLAMBAT ELSE TEPAT]

\* CheckedOut that also writes the payload's correlation id into the row.
CheckedOutRebinds(row, p) ==
    [row EXCEPT !.waktu_pulang = p.now_local_iso,
                !.id_lokasi_pulang = LocationAt(p.now_local_iso).id,
                !.out_latitude = LocationAt(p.now_local_iso).lat,
                !.out_longitude = LocationAt(p.now_local_iso).lng,
                !.face_verified_pulang = p.face_verified,
                !.status_pulang = TEPAT,
                !.correlation_id = p.correlation_id]

\* The row after lines 252-259.
CheckedOut(row, p) ==
    [row EXCEPT !.waktu_pulang = p.now_local_iso,
                !.id_lokasi_pulang = LocationAt(p.now_local_iso).id,
                !.out_latitude = LocationAt(p.now_local_iso).lat,
                !.out_longitude = LocationAt(p.now_local_iso).lng,
                !.face_verified_pulang = p.face_verified,
                !.status_pulang = TEPAT]

\* The table after the UPDATE of the row execution e loaded.
Updated(tbl, e) ==
    [tbl EXCEPT ![rec[e]] = CheckedOut(tbl[rec[e]], payload[e])]

\* Lines 251-267: the UPDATE of the loaded row and s.commit().
CheckoutCommit(e) ==
    /\ pc[e] = "co_commit"
    /\ absensi' = Updated(absensi, e)
    /\ Return(e, Ok(MsgCheckoutSaved, rec[e], FALSE))
    /\ UNCHANGED <<payload, jadwal, rec, atStart>>

\* ------------------------------------------------------------ worker loss
Crashes == Cardinality({e \in Exec : pc[e] = "crashed"})

\* The worker dies during an execution before its commit: the store rolls
\* the open transaction back, nothing is returned or acknowledged.
Crash(e) ==
    /\ pc[e] \in {"ci_commit", "ci_requery", "co_query", "co_commit"}
    /\ Crashes < MaxCrashes
    /\ pc' = [pc EXCEPT ![e] = "crashed"]
    /\ UNCHANGED <<absensi, payload, jadwal, rec, result, atStart>>

\* The worker dies after s.commit() succeeded and before the task returned:
\* the write stays, nothing is returned or acknowledged.
CrashAfterCommit(e) ==
    /\ Crashes < MaxCrashes
    /\ \/ /\ pc[e] = "ci_commit"
          /\ ~UniqueViolation(absensi, payload[e].correlation_id)
          /\ absensi' = Inserted(absensi, e)
       \/ /\ pc[e] = "co_commit"
          /\ absensi' = Updated(absensi, e)
    /\ pc' = [pc EXCEPT ![e] = "crashed"]
    /\ UNCHANGED <<payload, jadwal, rec, result, atStart>>

Next ==
    \/ \E e \in Exec : \E p \in CheckinPayloads :
           CheckinLookup(e, p) /\ UNCHANGED <<latenessVars, routeVars, resolverVars, verifyVars>>
    \/ \E e \in Exec : CheckinCommit(e) /\ UNCHANGED <<latenessVars, routeVars, resolverVars, verifyVars>>
    \/ \E e \in Exec : CheckinRequery(e) /\ UNCHANGED <<latenessVars, routeVars, resolverVars, verifyVars>>
    \/ \E e \in Exec : \E p \in CheckoutPayloads :
           CheckoutGet(e, p) /\ UNCHANGED <<latenessVars, routeVars, resolverVars, verifyVars>>
    \/ \E e \in Exec : \E p \in CheckoutPayloads :
           CheckoutQueryFirst(e, p) /\ UNCHANGED <<latenessVars, routeVars, resolverVars, verifyVars>>
    \/ \E e \in Exec : CheckoutQuery(e) /\ UNCHANGED <<latenessVars, routeVars, resolverVars, verifyVars>>
    \/ \E e \in Exec : CheckoutCommit(e) /\ UNCHANGED <<latenessVars, routeVars, resolverVars, verifyVars>>
    \/ \E e \in Exec : Crash(e) /\ UNCHANGED <<latenessVars, routeVars, resolverVars, verifyVars>>
    \/ \E e \in Exec : CrashAfterCommit(e) /\ UNCHANGED <<latenessVars, routeVars, resolverVars, verifyVars>>

Spec == Init /\ [][Next]_vars

\* --------------------------------------------- the tasks on a failing store
\* Executions that met a failure of the store.
Failures ==
    Cardinality({e \in Exec : result[e].message = MsgOperationalError})

\* The first round trip of a task raises (lines 70-74 or 203-212): the
\* handler of lines 167-170 / 268-271 rolls back and returns the error
\* dictionary.
LookupFails(e, p) ==
    /\ Begin(e, p)
    /\ Failures < MaxFailures
    /\ Return(e, Error(MsgOperationalError))
    /\ UNCHANGED <<absensi, jadwal, rec>>

\* A later round trip raises: the commit (lines 135, 261) before it took
\* effect, the query after the rollback (lines 140-144) or the query by
\* correlation id (lines 205-212).  except Exception (lines 167, 268)
\* catches it; s.rollback(); the error dictionary is returned.
StoreFails(e) ==
    /\ pc[e] \in {"ci_commit", "ci_requery", "co_query", "co_commit"}
    /\ Failures < MaxFailures
    /\ Return(e, Error(MsgOperationalError))
    /\ UNCHANGED <<absensi, payload, jadwal, rec, atStart>>

\* s.commit() succeeded and expired the attributes of rec (the session
\* factory of app/db/__init__.py keeps expire_on_commit at its default);
\* rec.id_absensi in lines 160-161 / 262 loads them again with a SELECT,
\* and that round trip raises.  The handler rolls back nothing, the commit
\* stands, and the error dictionary is returned.
RefreshFails(e) ==
    /\ Failures < MaxFailures
    /\ \/ /\ pc[e] = "ci_commit"
          /\ ~UniqueViolation(absensi, payload[e].correlation_id)
          /\ absensi' = Inserted(absensi, e)
       \/ /\ pc[e] = "co_commit"
          /\ absensi' = Updated(absensi, e)
    /\ Return(e, Error(MsgOperationalError))
    /\ UNCHANGED <<payload, jadwal, rec, atStart>>

TasksFaultyNext ==
    \/ \E e \in Exec : \E p \in CheckinPayloads :
           CheckinLookup(e, p)
           /\ UNCHANGED <<latenessVars, routeVars, resolverVars, verifyVars>>
    \/ \E e \in Exec :
           CheckinCommit(e)
           /\ UNCHANGED <<latenessVars, routeVars, resolverVars, verifyVars>>
    \/ \E e \in Exec :
           CheckinRequery(e)
           /\ UNCHANGED <<latenessVars, routeVars, resolverVars, verifyVars>>
    \/ \E e \in Exec : \E p \in CheckoutPayloads :
           CheckoutGet(e, p)
           /\ UNCHANGED <<latenessVars, routeVars, resolverVars, verifyVars>>
    \/ \E e \in Exec : \E p \in CheckoutPayloads :
           CheckoutQueryFirst(e, p)
           /\ UNCHANGED <<latenessVars, routeVars, resolverVars, verifyVars>>
    \/ \E e \in Exec :
           CheckoutQuery(e)
           /\ UNCHANGED <<latenessVars, routeVars, resolverVars, verifyVars>>
    \/ \E e \in Exec :
           CheckoutCommit(e)
           /\ UNCHANGED <<latenessVars, routeVars, resolverVars, verifyVars>>
    \/ \E e \in Exec : \E p \in CheckinPayloads \cup CheckoutPayloads :
           LookupFails(e, p)
           /\ UNCHANGED <<latenessVars, routeVars, resolverVars, verifyVars>>
    \/ \E e \in Exec :
           StoreFails(e)
           /\ UNCHANGED <<latenessVars, routeVars, resolverVars, verifyVars>>
    \/ \E e \in Exec :
           RefreshFails(e)
           /\ UNCHANGED <<latenessVars, routeVars, resolverVars, verifyVars>>

SpecTasksFaulty == Init /\ [][TasksFaultyNext]_vars

\* --------------------------------------------------- replays on later days
\* The tasks with payloads whose timestamps fall on different times of day
\* and on different days, so that a replayed check-in can differ from the
\* stored one in timestamp, date, location and coordinates.
ReplayTimes == {0, 1, DayLen}

ReplayCheckinPayloads ==
    { [kind |-> "checkin", user_id |-> u, correlation_id |-> c,
       absensi_id |-> NoId, now_local_iso |-> t, face_verified |-> TRUE] :
      u \in Users, c \in Corrs, t \in ReplayTimes }

\* Check-outs that name the record by the correlation id of its check-in.
ReplayCheckoutPayloads ==
    { [kind |-> "checkout", user_id |-> u, correlation_id |-> c,
       absensi_id |-> NoId, now_local_iso |-> t, face_verified |-> TRUE] :
      u \in Users, c \in Corrs, t \in ReplayTimes }

ReplayNext ==
    \/ \E e \in Exec : \E p \in ReplayCheckinPayloads :
           CheckinLookup(e, p) /\ UNCHANGED <<latenessVars, routeVars, resolverVars, verifyVars>>
    \/ \E e \in Exec : CheckinCommit(e) /\ UNCHANGED <<latenessVars, routeVars, resolverVars, verifyVars>>
    \/ \E e \in Exec : CheckinRequery(e) /\ UNCHANGED <<latenessVars, routeVars, resolverVars, verifyVars>>
    \/ \E e \in Exec : \E p \in ReplayCheckoutPayloads :
           CheckoutQueryFirst(e, p) /\ UNCHANGED <<latenessVars, routeVars, resolverVars, verifyVars>>
    \/ \E e \in Exec : CheckoutCommit(e) /\ UNCHANGED <<latenessVars, routeVars, resolverVars, verifyVars>>

SpecReplay == Init /\ [][ReplayNext]_vars

\* ------------------------------------------------- the lateness decision
\* Lines 101-132 of the check-in on their own, for every schedule: the
\* shift lookup, the status and the row that is built.
EventTimes == 0..MaxEventTime
Dates == {DateOf(t) : t \in EventTimes}

ShiftId(u, d) ==
    IF u = "u1" THEN (IF d = 0 THEN "s1" ELSE "s2")
                ELSE (IF d = 0 THEN "s3" ELSE "s4")

\* The shifts user u can have on date d: tanggal is a DateTime of that date,
\* jam_mulai_kerja a time of day.
ShiftsOn(u, d) ==
    { [id_jadwal_shift |-> ShiftId(u, d), id_user |-> u, tanggal |-> tg,
       jam_mulai_kerja |-> st] :
      tg \in {d * DayLen, d * DayLen + 1}, st \in 0..(DayLen - 1) }

\* The schedules: a user has at most one shift on a calendar date.
ShiftOrNone(x) == {{}} \cup { {j} : j \in ShiftsOn(x[1], x[2]) }
Schedules ==
    { UNION {f[x] : x \in Users \X Dates} :
      f \in { g \in [Users \X Dates ->
                         UNION {ShiftOrNone(x) : x \in Users \X Dates}] :
                \A x \in Users \X Dates : g[x] \in ShiftOrNone(x) } }

LatenessPayloads ==
    { [kind |-> "checkin", user_id |-> u, correlation_id |-> NoCorr,
       absensi_id |-> NoId, now_local_iso |-> t, face_verified |-> TRUE] :
      u \in Users, t \in EventTimes }

LatenessInit ==
    /\ TasksIdle
    /\ RoutesIdle
    /\ ResolverIdle
    /\ VerifyIdle
    /\ schedule \in Schedules
    /\ event = NoPayload
    /\ written = NoRow

\* Lines 101-132 for payload p: jadwal, status_kehadiran, rec = Absensi(...).
BuildAbsensi(p) ==
    /\ event' = p
    /\ written' = NewAbsensi(1, p, JadwalIn(schedule, p.user_id,
                                            DateOf(p.now_local_iso)))
    /\ UNCHANGED <<schedule, taskVars, routeVars, resolverVars, verifyVars>>

LatenessNext == \E p \in LatenessPayloads : BuildAbsensi(p)

SpecLateness == LatenessInit /\ [][LatenessNext]_vars

\* ------------------------------------------------- /checkin and /checkout
\* The "sub" claims of the tokens the issuer signs: absent, empty, blank,
\* a user id, a user id with a leading blank.
Subs == {NoSub, "", " ", "u1", " u1", "u2"}
Tokens ==
    {NoToken, BadToken}
        \cup {[present |-> TRUE, valid |-> TRUE, sub |-> sb] : sb \in Subs}

\* str.strip() on the strings of the model.
Strip(str) ==
    IF str = " " THEN "" ELSE IF str = " u1" THEN "u1" ELSE str

\* get_user_id_from_auth (auth_utils.py, lines 149-162) on the stored
\* token payload: None (NoSub) when there is no payload or no "sub".
GetUserIdFromAuth(sub) ==
    IF sub = NoSub \/ sub = "" THEN NoSub ELSE Strip(sub)

\* user_id = get_user_id_from_auth() or "" (rbac_utils.py, line 164)
AuthUserId(sub) ==
    IF GetUserIdFromAuth(sub) \in {NoSub, ""} THEN ""
    ELSE GetUserIdFromAuth(sub)

\* The uploaded probe images: a photo of u1, a photo of u2, a photo
\* without a face.
Images == {"face of u1", "face of u2", "no face"}
FaceOf(img) == IF img = "face of u1" THEN "u1" ELSE "u2"

\* The table lokasi.
Lokasi == {"L1", "L2"}

CheckinRequests ==
    { [kind |-> "checkin", token |-> tk, user_id |-> u, image |-> im,
       location_id |-> l, absensi_id |-> NoId, correlation_id |-> c] :
      tk \in Tokens, u \in Users \cup {""}, im \in Images \cup {NoImage},
      l \in {"", "L1", "L9"}, c \in Corrs \cup {NoCorr} }

CheckoutRequests ==
    { [kind |-> "checkout", token |-> tk, user_id |-> u, image |-> im,
       location_id |-> "L1", absensi_id |-> a, correlation_id |-> c] :
      tk \in Tokens, u \in Users \cup {""}, im \in Images \cup {NoImage},
      a \in {NoId, 1}, c \in Corrs \cup {NoCorr} }

\* The response goes out; the request is over.
Respond(code) ==
    /\ response' = code
    /\ rpc' = "idle"
    /\ served' = served + 1

\* A request r arrives at the WSGI server.
Receive(r) ==
    /\ rpc = "idle"
    /\ served < MaxRequests
    /\ request' = r
    /\ rpc' = "token_required"
    /\ flask_g' = NoSub
    /\ verified' = "none"
    /\ steps' = << >>
    /\ response' = 0
    /\ UNCHANGED <<served, queue>>

\* token_required (auth_utils.py, lines 113-144): 401 without a token or
\* with one _verify_jwt rejects, else the payload goes to flask.g.
TokenRequired ==
    /\ rpc = "token_required"
    /\ IF ~request.token.present \/ ~request.token.valid
       THEN /\ Respond(401)
            /\ UNCHANGED <<flask_g, steps>>
       ELSE /\ flask_g' = request.token.sub
            /\ steps' = Append(steps, "token")
            /\ rpc' = "require_permission"
            /\ UNCHANGED <<response, served>>
    /\ UNCHANGED <<request, verified, queue>>

\* require_permission (rbac_utils.py, lines 163-169): abort(403) unless
\* can(user_id, resource, action); can is false for an empty user id and
\* otherwise what the permission resolver answers.
RequirePermission ==
    /\ rpc = "require_permission"
    /\ \E allowed \in (IF AuthUserId(flask_g) = "" THEN {FALSE} ELSE BOOLEAN) :
           IF ~allowed
           THEN /\ Respond(403)
                /\ UNCHANGED steps
           ELSE /\ steps' = Append(steps, "permission")
                /\ rpc' = "verify_user"
                /\ UNCHANGED <<response, served>>
    /\ UNCHANGED <<request, flask_g, verified, queue>>

\* The form checks of the route (lines 75-82, 153-160).
FormOk(r) ==
    /\ r.user_id # ""
    /\ r.kind = "checkin" => r.location_id # ""
    /\ r.kind = "checkout" =>
           (r.absensi_id # NoId \/ r.correlation_id # NoCorr)
    /\ r.image # NoImage

\* VerifyUser going on to the enqueue when verify_user raises.
VerifyUserIgnoresErrors ==
    /\ rpc = "verify_user"
    /\ IF ~FormOk(request)
       THEN /\ Respond(400)
            /\ UNCHANGED <<verified, steps>>
       ELSE /\ \E profile \in BOOLEAN :
                   verified' =
                       IF request.image = "no face" \/ ~profile THEN "none"
                       ELSE IF FaceOf(request.image) = request.user_id
                       THEN "match" ELSE "no match"
            /\ steps' = Append(steps, "verify")
            /\ rpc' = "enqueue"
            /\ UNCHANGED <<response, served>>
    /\ UNCHANGED <<request, flask_g, queue>>

\* Lines 67-92 and 144-169: the form checks, then verify_user(user_id,
\* image) (face_service.py, lines 210-259): it raises when the probe shows
\* no face (500) and when the user has no embedding and no baseline in the
\* storage (FileNotFoundError, 404); otherwise it returns a dictionary
\* whose "match" tells whether the probe is the user's face.
VerifyUser ==
    /\ rpc = "verify_user"
    /\ IF ~FormOk(request)
       THEN /\ Respond(400)
            /\ UNCHANGED <<verified, steps>>
       ELSE IF request.image = "no face"
       THEN /\ Respond(500)
            /\ UNCHANGED <<verified, steps>>
       ELSE \E profile \in BOOLEAN :
                IF ~profile
                THEN /\ Respond(404)
                     /\ UNCHANGED <<verified, steps>>
                ELSE /\ verified' =
                            IF FaceOf(request.image) = request.user_id
                            THEN "match" ELSE "no match"
                     /\ steps' = Append(steps, "verify")
                     /\ rpc' = "enqueue"
                     /\ UNCHANGED <<response, served>>
    /\ UNCHANGED <<request, flask_g, queue>>

\* The payload the route hands to the task (lines 113-119, 176-182), as the
\* task reads it: the payload has no key "face_verified", which the task
\* reads as True (absensi_tasks.py, lines 64 and 193).
PayloadOf(r, now_iso) ==
    [kind |-> r.kind, user_id |-> r.user_id,
     correlation_id |-> r.correlation_id, absensi_id |-> r.absensi_id,
     now_local_iso |-> now_iso, face_verified |-> TRUE]

\* Lines 94-123 and 171-184: /checkin answers 404 for an unknown location;
\* then the payload is built with the event time (captured_at of the form,
\* else the server's clock) and handed to the broker with .delay().
Enqueue ==
    /\ rpc = "enqueue"
    /\ IF request.kind = "checkin" /\ request.location_id \notin Lokasi
       THEN /\ Respond(404)
            /\ UNCHANGED <<steps, queue>>
       ELSE \E now_iso \in Times :
                /\ queue' = queue \cup
                       { [payload |-> PayloadOf(request, now_iso),
                          request |-> served,
                          sub |-> flask_g,
                          verified |-> verified] }
                /\ steps' = Append(steps, "enqueue")
                /\ Respond(200)
    /\ UNCHANGED <<request, flask_g, verified>>

RoutesInit ==
    TasksIdle /\ LatenessIdle /\ RoutesIdle /\ ResolverIdle /\ VerifyIdle

RoutesNext ==
    \/ \E r \in CheckinRequests \cup CheckoutRequests :
           Receive(r) /\ UNCHANGED <<taskVars, latenessVars, resolverVars, verifyVars>>
    \/ TokenRequired /\ UNCHANGED <<taskVars, latenessVars, resolverVars, verifyVars>>
    \/ RequirePermission /\ UNCHANGED <<taskVars, latenessVars, resolverVars, verifyVars>>
    \/ VerifyUser /\ UNCHANGED <<taskVars, latenessVars, resolverVars, verifyVars>>
    \/ Enqueue /\ UNCHANGED <<taskVars, latenessVars, resolverVars, verifyVars>>

SpecRoutes == RoutesInit /\ [][RoutesNext]_vars

\* -------------------------------------------------------- the resolver
\* Calls of can() in one process, running in the threads of the WSGI server
\* and interleaving between their reads and writes of _perm_cache and
\* their queries; the permission tables are changed by the administration.
ResolverSubs == {NoSub, " ", "u1"}
ResolverKeys == {PermKey("absensi", "create")}
ResolverStores == {StoreGranted, StoreDenied}
Answer(b) == IF b THEN "allow" ELSE "deny"

\* The call c is entered with the token subject sb and the key k.
Entered(c, sb, k) ==
    [NoCall EXCEPT !.sub = sb, !.user_id = AuthUserId(sb), !.key = k,
                   !.afterTTL = (changedAt # NoTime
                                 /\ clock >= changedAt + CACHE_TTL),
                   !.afterClear = AuthUserId(sb) \in invalidated]

\* Can without the test of line 133.
CanNoEmptyTest(c, sb, k) ==
    /\ call[c].pc = "idle"
    /\ IF c = 1 THEN TRUE ELSE call[c - 1].pc # "idle"
    /\ LET entry == perm_cache[AuthUserId(sb)]
       IN  IF entry # NoEntry /\ entry.expires > clock
           THEN call' = [call EXCEPT ![c] =
                    [Entered(c, sb, k) EXCEPT
                        !.pc = "done",
                        !.answer = Answer(k \in entry.perm_set)]]
           ELSE call' = [call EXCEPT ![c] =
                    [Entered(c, sb, k) EXCEPT !.pc = "compute"]]
    /\ UNCHANGED <<store, perm_cache, clock, changedAt, changes, invalidated>>

\* Can with ">=" for the ">" of line 118.
CanEntryNotStrict(c, sb, k) ==
    /\ call[c].pc = "idle"
    /\ IF c = 1 THEN TRUE ELSE call[c - 1].pc # "idle"
    /\ LET entry == perm_cache[AuthUserId(sb)]
       IN  IF AuthUserId(sb) = ""
           THEN call' = [call EXCEPT ![c] =
                    [Entered(c, sb, k) EXCEPT !.pc = "done",
                                              !.answer = Answer(FALSE)]]
           ELSE IF entry # NoEntry /\ entry.expires >= clock
           THEN call' = [call EXCEPT ![c] =
                    [Entered(c, sb, k) EXCEPT
                        !.pc = "done",
                        !.answer = Answer(k \in entry.perm_set)]]
           ELSE call' = [call EXCEPT ![c] =
                    [Entered(c, sb, k) EXCEPT !.pc = "compute"]]
    /\ UNCHANGED <<store, perm_cache, clock, changedAt, changes, invalidated>>

\* require_permission (line 164), can (lines 133-136) and
\* _get_user_perm_set (lines 116-121): false for an empty user id; the
\* answer from the cache entry when there is one with expires > now;
\* otherwise on to _compute_user_perm_set.
Can(c, sb, k) ==
    /\ call[c].pc = "idle"
    /\ IF c = 1 THEN TRUE ELSE call[c - 1].pc # "idle"
    /\ LET entry == perm_cache[AuthUserId(sb)]
       IN  IF AuthUserId(sb) = ""
           THEN call' = [call EXCEPT ![c] =
                    [Entered(c, sb, k) EXCEPT !.pc = "done",
                                              !.answer = Answer(FALSE)]]
           ELSE IF entry # NoEntry /\ entry.expires > clock
           THEN call' = [call EXCEPT ![c] =
                    [Entered(c, sb, k) EXCEPT
                        !.pc = "done",
                        !.answer = Answer(k \in entry.perm_set)]]
           ELSE call' = [call EXCEPT ![c] =
                    [Entered(c, sb, k) EXCEPT !.pc = "compute"]]
    /\ UNCHANGED <<store, perm_cache, clock, changedAt, changes, invalidated>>

\* Lines 73-102: the queries of _compute_user_perm_set and the loops over
\* their rows.
ComputeRead(c) ==
    /\ call[c].pc = "compute"
    /\ call' = [call EXCEPT
                   ![c].pc = "store",
                   ![c].readStore = TRUE,
                   ![c].perm_set = ComputeUserPermSet(store, call[c].user_id)]
    /\ UNCHANGED <<store, perm_cache, clock, changedAt, changes, invalidated>>

\* The entry line 105 builds at clock value t.
NewEntry(perm_set, t) ==
    [perm_set |-> perm_set, expires |-> t + CACHE_TTL, stored |-> t]

\* ComputeStore that keeps one entry for all users.
ComputeStoreSharedEntry(c) ==
    /\ call[c].pc = "store"
    /\ perm_cache' = [perm_cache EXCEPT
                         !["u1"] = NewEntry(call[c].perm_set, clock)]
    /\ call' = [call EXCEPT
                   ![c].pc = "done",
                   ![c].answer = Answer(call[c].key \in call[c].perm_set)]
    /\ UNCHANGED <<store, clock, changedAt, changes, invalidated>>

\* Lines 104-106 and 136: the entry is written with expires = time.time()
\* + _CACHE_TTL and the membership of the key is returned.
ComputeStore(c) ==
    /\ call[c].pc = "store"
    /\ perm_cache' = [perm_cache EXCEPT
                         ![call[c].user_id] = NewEntry(call[c].perm_set, clock)]
    /\ call' = [call EXCEPT
                   ![c].pc = "done",
                   ![c].answer = Answer(call[c].key \in call[c].perm_set)]
    /\ UNCHANGED <<store, clock, changedAt, changes, invalidated>>

\* clear_perm_cache that purges the whole cache whatever user id it gets.
ClearPermCacheAll(u) ==
    /\ perm_cache' = [v \in DOMAIN perm_cache |-> NoEntry]
    /\ invalidated' = IF changes = 0 THEN invalidated ELSE Users
    /\ UNCHANGED <<store, clock, call, changedAt, changes>>

\* clear_perm_cache(user_id) (lines 187-190): one entry, or with an empty
\* user id all of them.
ClearPermCache(u) ==
    /\ perm_cache' = IF u # "" THEN [perm_cache EXCEPT ![u] = NoEntry]
                     ELSE [v \in DOMAIN perm_cache |-> NoEntry]
    /\ invalidated' = IF changes = 0 THEN invalidated
                      ELSE IF u # "" THEN invalidated \cup {u}
                      ELSE Users
    /\ UNCHANGED <<store, clock, call, changedAt, changes>>

\* The administration commits a change of the permission tables.  The
\* history of the calls is kept relative to the last change.
CommitChange(st) ==
    /\ changes < MaxChanges
    /\ st # store
    /\ store' = st
    /\ changedAt' = clock
    /\ changes' = changes + 1
    /\ invalidated' = {}
    /\ call' = [c \in Calls |->
                   [call[c] EXCEPT !.afterTTL = FALSE, !.afterClear = FALSE]]
    /\ UNCHANGED <<perm_cache, clock>>

\* Time passes.
Tick ==
    /\ clock < MaxClock
    /\ clock' = clock + 1
    /\ UNCHANGED <<store, perm_cache, call, changedAt, changes, invalidated>>

ResolverInit ==
    /\ TasksIdle /\ LatenessIdle /\ RoutesIdle /\ VerifyIdle
    /\ store \in ResolverStores
    /\ perm_cache = [u \in Users \cup {""} |-> NoEntry]
    /\ clock = 0
    /\ call = [c \in Calls |-> NoCall]
    /\ changedAt = NoTime
    /\ changes = 0
    /\ invalidated = {}

ResolverNext ==
    \/ \E c \in Calls : \E sb \in ResolverSubs : \E k \in ResolverKeys :
           Can(c, sb, k) /\ UNCHANGED <<taskVars, latenessVars, routeVars, verifyVars>>
    \/ \E c \in Calls :
           ComputeRead(c) /\ UNCHANGED <<taskVars, latenessVars, routeVars, verifyVars>>
    \/ \E c \in Calls :
           ComputeStore(c) /\ UNCHANGED <<taskVars, latenessVars, routeVars, verifyVars>>
    \/ \E u \in {"u1", ""} :
           ClearPermCache(u) /\ UNCHANGED <<taskVars, latenessVars, routeVars, verifyVars>>
    \/ \E st \in ResolverStores :
           CommitChange(st) /\ UNCHANGED <<taskVars, latenessVars, routeVars, verifyVars>>
    \/ Tick /\ UNCHANGED <<taskVars, latenessVars, routeVars, verifyVars>>

SpecResolver == ResolverInit /\ [][ResolverNext]_vars

\* ------------------------------------------- token_required, in detail
\* The tokens a client can send: the number of segments between dots, the
\* signature segment (the HMAC of the secret, another value, or not
\* base64), the payload segment (a JSON object, JSON of another type such
\* as [], or not JSON), and in the payload the claim exp (NoTime: absent;
\* exp_number tells whether float(exp) succeeds) and the claim sub.
AuthTokens ==
    [present : {TRUE}, segments : {2, 3},
     signature : {"good", "bad", "not base64"},
     payload : {"object", "not an object", "not json"},
     exp : {NoTime, 1, 2}, exp_number : BOOLEAN, sub : {"u1", " "}]

\* No Authorization header and no cookie.
NoAuthToken ==
    [present |-> FALSE, segments |-> 0, signature |-> "bad",
     payload |-> "not json", exp |-> NoTime, exp_number |-> FALSE,
     sub |-> " "]

\* _verify_jwt (lines 41-96) at time now: the exception it raises, or
\* "payload" when it returns the payload.  payload.get (line 84) is called
\* on whatever json.loads returned.
VerifyJwt(tk, now) ==
    IF tk.segments # 3 THEN "ValueError"
    ELSE IF tk.signature # "good" THEN "ValueError"
    ELSE IF tk.payload = "not json" THEN "ValueError"
    ELSE IF tk.payload = "not an object" THEN "AttributeError"
    ELSE IF tk.exp = NoTime THEN "payload"
    ELSE IF ~tk.exp_number THEN "ValueError"
    ELSE IF now >= tk.exp THEN "ValueError"
    ELSE "payload"

AuthRequests ==
    { [kind |-> "checkin", token |-> tk] : tk \in AuthTokens \cup {NoAuthToken} }

\* token_required (lines 113-144): 401 without a token and for a ValueError
\* of _verify_jwt; another exception leaves the decorator and the
\* application answers 500.
AuthTokenRequired ==
    /\ rpc = "token_required"
    /\ IF ~request.token.present
       THEN /\ Respond(401)
            /\ UNCHANGED <<flask_g, steps>>
       ELSE IF VerifyJwt(request.token, clock) = "ValueError"
       THEN /\ Respond(401)
            /\ UNCHANGED <<flask_g, steps>>
       ELSE IF VerifyJwt(request.token, clock) = "AttributeError"
       THEN /\ Respond(500)
            /\ UNCHANGED <<flask_g, steps>>
       ELSE /\ flask_g' = request.token.sub
            /\ steps' = Append(steps, "token")
            /\ rpc' = "require_permission"
            /\ UNCHANGED <<response, served>>
    /\ UNCHANGED <<request, verified, queue>>

\* require_permission("absensi", "create") (rbac_utils.py, lines 163-169)
\* on a cache without entry for the user: can() computes the permission
\* set from the store.
AuthRequirePermission ==
    /\ rpc = "require_permission"
    /\ IF AuthUserId(flask_g) # ""
          /\ PermKey("absensi", "create")
                 \in ComputeUserPermSet(store, AuthUserId(flask_g))
       THEN /\ steps' = Append(steps, "permission")
            /\ rpc' = "handler"
            /\ UNCHANGED <<response, served>>
       ELSE /\ Respond(403)
            /\ UNCHANGED steps
    /\ UNCHANGED <<request, flask_g, verified, queue>>

\* return func(*args, **kwargs): the route function runs and answers.
Handler ==
    /\ rpc = "handler"
    /\ steps' = Append(steps, "handler")
    /\ Respond(200)
    /\ UNCHANGED <<request, flask_g, verified, queue>>

AuthNext ==
    \/ \E r \in AuthRequests :
           Receive(r) /\ UNCHANGED <<taskVars, latenessVars, resolverVars, verifyVars>>
    \/ AuthTokenRequired /\ UNCHANGED <<taskVars, latenessVars, resolverVars, verifyVars>>
    \/ AuthRequirePermission /\ UNCHANGED <<taskVars, latenessVars, resolverVars, verifyVars>>
    \/ Handler /\ UNCHANGED <<taskVars, latenessVars, resolverVars, verifyVars>>
    \/ Tick /\ UNCHANGED <<taskVars, latenessVars, routeVars, verifyVars>>

SpecAuth == ResolverInit /\ [][AuthNext]_vars

\* ------------------------------------------- the cache of several users
\* The resolver called for both users, with clear_perm_cache for each of
\* them and for all; the store does not change.
ClearArgs == {"u1", "u2", ""}

ClearNext ==
    \/ \E c \in Calls : \E sb \in Users : \E k \in ResolverKeys :
           Can(c, sb, k) /\ UNCHANGED <<taskVars, latenessVars, routeVars, verifyVars>>
    \/ \E c \in Calls :
           ComputeRead(c) /\ UNCHANGED <<taskVars, latenessVars, routeVars, verifyVars>>
    \/ \E c \in Calls :
           ComputeStore(c) /\ UNCHANGED <<taskVars, latenessVars, routeVars, verifyVars>>
    \/ \E u \in ClearArgs :
           ClearPermCache(u) /\ UNCHANGED <<taskVars, latenessVars, routeVars, verifyVars>>
    \/ Tick /\ UNCHANGED <<taskVars, latenessVars, routeVars, verifyVars>>

SpecClear == ResolverInit /\ [][ClearNext]_vars

\* ------------------------------------------ the resolver on a failing store
\* ComputeFails that leaves what it had collected in the cache.
ComputeFailsKeepsPartial(c, second) ==
    /\ call[c].pc = "compute"
    /\ LET partial == IF second THEN RoleKeys(store, call[c].user_id) ELSE {}
       IN  /\ call' = [call EXCEPT ![c].pc = "raised",
                                   ![c].readStore = second,
                                   ![c].perm_set = partial,
                                   ![c].answer = "error"]
           /\ perm_cache' = [perm_cache EXCEPT
                                ![call[c].user_id] = NewEntry(partial, clock)]
    /\ UNCHANGED <<store, clock, changedAt, changes, invalidated>>

\* A query of _compute_user_perm_set raises: the first one (lines 77-83),
\* or the second one (lines 89-94) after the role keys were collected.
\* Nothing catches the exception in _compute_user_perm_set,
\* _get_user_perm_set, can or the wrapper of require_permission, so line
\* 105 is not reached and neither abort(403) nor func(*args, **kwargs) is.
ComputeFails(c, second) ==
    /\ call[c].pc = "compute"
    /\ LET partial == IF second THEN RoleKeys(store, call[c].user_id) ELSE {}
       IN  call' = [call EXCEPT ![c].pc = "raised",
                                ![c].readStore = second,
                                ![c].perm_set = partial,
                                ![c].answer = "error"]
    /\ UNCHANGED <<store, perm_cache, clock, changedAt, changes, invalidated>>

ResolverFaultyNext ==
    \/ ResolverNext
    \/ \E c \in Calls : \E second \in BOOLEAN :
           ComputeFails(c, second)
           /\ UNCHANGED <<taskVars, latenessVars, routeVars, verifyVars>>

SpecResolverFaulty == ResolverInit /\ [][ResolverFaultyNext]_vars

\* ------------------------------------------- the effective permission set
\* _compute_user_perm_set on its own, for every store.
PermSetInit ==
    /\ TasksIdle /\ LatenessIdle /\ RoutesIdle /\ VerifyIdle
    /\ store \in Stores
    /\ perm_cache = [u \in Users \cup {""} |-> NoEntry]
    /\ clock = 0
    /\ call = [c \in Calls |-> NoCall]
    /\ changedAt = NoTime
    /\ changes = 0
    /\ invalidated = {}

\* Lines 73-102 for user u: the c-th computation of a permission set.
ComputePermSet(c, u) ==
    /\ call[c].pc = "idle"
    /\ IF c = 1 THEN TRUE ELSE call[c - 1].pc # "idle"
    /\ call' = [call EXCEPT ![c] =
                    [NoCall EXCEPT !.pc = "done", !.user_id = u,
                                   !.readStore = TRUE,
                                   !.perm_set = ComputeUserPermSet(store, u)]]
    /\ UNCHANGED <<store, perm_cache, clock, changedAt, changes, invalidated>>
    /\ UNCHANGED <<taskVars, latenessVars, routeVars, verifyVars>>

PermSetNext == \E c \in Calls : \E u \in Users : ComputePermSet(c, u)

SpecPermSet == PermSetInit /\ [][PermSetNext]_vars

\* ------------------------------------------------------------ verify_user
\* What a client can send as the file "image".
ProbeImages == Images \cup {"not an image"}
Metrics == {"cosine", "l2", "manhattan"}
\* Scores and thresholds are in hundredths: 45 is the default 0.45.
Thresholds == {45, 100, 110}
\* The storage call that fails in the transport during a call, if any: the
\* download of embedding.npy, the listing of the folder, the download of a
\* baseline image (answered with a 5xx status).
Faults == {"none", "reference", "list", "baseline"}

\* get_embedding (lines 88-97): the embedding of the face in the image, as
\* the engine returns it (not normalised); None without a face.
GetEmbedding(img) ==
    IF img = "face of u1" THEN <<3>>
    ELSE IF img = "face of u2" THEN <<-2>>
    ELSE << >>

Sign(x) == IF x > 0 THEN 1 ELSE IF x < 0 THEN -1 ELSE 0
Abs(x) == IF x < 0 THEN -x ELSE x

\* _normalize (lines 32-34): v / (norm(v) + eps), eps neglected.
Normalize(v) == <<Sign(v[1])>>

\* Unsupported for a _score that never raises.
UnsupportedIgnored(metric) == FALSE

\* _score raises ValueError (lines 42-43).
Unsupported(metric) == metric # "cosine" /\ metric # "l2"

\* _score (lines 37-41), in hundredths, for a metric it supports.
Score(a, b, metric) ==
    IF metric = "cosine" THEN 100 * (a[1] * b[1])
    ELSE 0 - 100 * Abs(a[1] - b[1])

\* _is_match with ">" for the ">=" of lines 49 and 51.
IsMatchStrict(score, metric, threshold) ==
    IF metric = "cosine" THEN score > threshold
    ELSE IF metric = "l2" THEN score > 0 - threshold
    ELSE FALSE

\* _is_match (lines 46-53)
IsMatch(score, metric, threshold) ==
    IF metric = "cosine" THEN score >= threshold
    ELSE IF metric = "l2" THEN score >= 0 - threshold
    ELSE FALSE

\* baselines[:3]
FirstThree(seq) == SubSeq(seq, 1, IF Len(seq) < 3 THEN Len(seq) ELSE 3)

\* Lines 238-244: the normalised embeddings of the images that show a face.
RECURSIVE BaselineEmbeddings(_)
BaselineEmbeddings(imgs) ==
    IF imgs = << >> THEN << >>
    ELSE LET emb == GetEmbedding(Head(imgs))
         IN  IF emb = << >> THEN BaselineEmbeddings(Tail(imgs))
             ELSE <<Normalize(emb)>> \o BaselineEmbeddings(Tail(imgs))

\* Line 247: np.stack(embs).mean(axis=0), times the number of embeddings
\* (the normalisation of line 249 removes the factor).
RECURSIVE SumOf(_)
SumOf(embs) ==
    IF embs = << >> THEN <<0>>
    ELSE <<Head(embs)[1] + SumOf(Tail(embs))[1]>>

Raised(exc, cause, used) ==
    [exc |-> exc, cause |-> cause, used |-> used, score |-> 0,
     match |-> FALSE]

\* Lines 249-259 on the reference ref: the score and the decision, or the
\* ValueError of _score.
Compare(ref, probe_n, metric, threshold, used) ==
    LET score == Score(Normalize(ref), probe_n, metric)
    IN  IF Unsupported(metric)
        THEN Raised("ValueError", "metric", used)
        ELSE [exc |-> "none", cause |-> "none", used |-> used,
              score |-> score, match |-> IsMatch(score, metric, threshold)]

\* Lines 232-247: the reference built from the listing of the folder fd.
FromBaselines(fd, probe_n, metric, threshold, fault) ==
    IF ~fd.exists \/ fault = "list"
    THEN Raised("RuntimeError", "list", "none")
    ELSE IF fd.baselines = << >>
    THEN Raised("FileNotFoundError", "no profile", "none")
    ELSE IF fault = "baseline"
    THEN Raised("FileNotFoundError", "baseline download", "none")
    ELSE LET embs == BaselineEmbeddings(FirstThree(fd.baselines))
         IN  IF embs = << >>
             THEN Raised("RuntimeError", "baseline without face", "none")
             ELSE Compare(SumOf(embs), probe_n, metric, threshold,
                          "baselines")

\* Lines 223-232: embedding.npy is downloaded and loaded; every exception
\* of that leaves ref = None and sends the call on to the baselines.
FromReference(fd, probe_n, metric, threshold, fault) ==
    IF fd.embedding # << >> /\ fault # "reference"
    THEN Compare(fd.embedding, probe_n, metric, threshold, "reference")
    ELSE FromBaselines(fd, probe_n, metric, threshold, fault)

\* verify_user (lines 210-259) on the folder fd.
VerifyResult(fd, img, metric, threshold, fault) ==
    IF img = "not an image"
    THEN Raised("ValueError", "decode", "none")
    ELSE IF GetEmbedding(img) = << >>
    THEN Raised("RuntimeError", "no face", "none")
    ELSE FromReference(fd, Normalize(GetEmbedding(img)), metric, threshold,
                       fault)

\* The status code the routes answer with (face/routes.py, lines 85-92;
\* absensi/routes.py, lines 85-92 and 163-169): FileNotFoundError is 404,
\* every other exception 500.  200 stands for the route going on.
StatusOf(exc) ==
    IF exc = "none" THEN 200
    ELSE IF exc = "FileNotFoundError" THEN 404
    ELSE 500

\* Verify that stores the reference it rebuilt from the baselines.
VerifyStoresReference(img, metric, threshold, fault) ==
    \E r \in {VerifyResult(folder, img, metric, threshold, fault)} :
        /\ vres' = [image |-> img, metric |-> metric,
                    threshold |-> threshold, fault |-> fault, exc |-> r.exc,
                    cause |-> r.cause, used |-> r.used, score |-> r.score,
                    match |-> r.match, status |-> StatusOf(r.exc)]
        /\ folder' = IF r.used = "baselines"
                     THEN [folder EXCEPT !.embedding =
                              Normalize(SumOf(BaselineEmbeddings(
                                  FirstThree(folder.baselines))))]
                     ELSE folder

\* A route calls verify_user(user_id, img_file, metric, threshold) for u1.
Verify(img, metric, threshold, fault) ==
    \E r \in {VerifyResult(folder, img, metric, threshold, fault)} :
        /\ vres' = [image |-> img, metric |-> metric,
                    threshold |-> threshold, fault |-> fault, exc |-> r.exc,
                    cause |-> r.cause, used |-> r.used, score |-> r.score,
                    match |-> r.match, status |-> StatusOf(r.exc)]
        /\ UNCHANGED folder

\* enroll_user_task, lines 130-151: one image with a face is stored as a
\* baseline of u1.
UploadBaseline(img) ==
    /\ GetEmbedding(img) # << >>
    /\ Len(folder.baselines) < MaxBaselines
    /\ folder' = [folder EXCEPT !.exists = TRUE,
                                !.baselines = Append(@, img)]
    /\ UNCHANGED vres

\* upload_bytes (nextcloud_storage.py, lines 248-255) for the first
\* baseline: _ensure_dir has made the folder and the PUT is refused, so
\* the folder is there without a file in it.
UploadRefused ==
    /\ ~folder.exists
    /\ folder' = [folder EXCEPT !.exists = TRUE]
    /\ UNCHANGED vres

\* enroll_user_task, lines 157-161: the normalised mean of the embeddings
\* of the run, which uploaded the last n baselines, is stored as
\* embedding.npy.
UploadEmbedding(n) ==
    /\ n \in 1..Len(folder.baselines)
    /\ folder' = [folder EXCEPT !.embedding =
                     Normalize(SumOf(BaselineEmbeddings(
                         SubSeq(folder.baselines,
                                Len(folder.baselines) - n + 1,
                                Len(folder.baselines)))))]
    /\ UNCHANGED vres

\* delete_user_face_data (lines 261-286): the folder is deleted.
DeleteUserFaceData ==
    /\ folder' = NoFolder
    /\ UNCHANGED vres

VerifyInit ==
    TasksIdle /\ LatenessIdle /\ RoutesIdle /\ ResolverIdle /\ VerifyIdle

VerifyNext ==
    \/ \E img \in ProbeImages : \E metric \in Metrics :
       \E threshold \in Thresholds : \E fault \in Faults :
           Verify(img, metric, threshold, fault)
           /\ UNCHANGED <<taskVars, latenessVars, routeVars, resolverVars, detectVars>>
    \/ \E img \in Images :
           UploadBaseline(img)
           /\ UNCHANGED <<taskVars, latenessVars, routeVars, resolverVars, detectVars>>
    \/ UploadRefused
           /\ UNCHANGED <<taskVars, latenessVars, routeVars, resolverVars, detectVars>>
    \/ \E n \in 1..MaxBaselines :
           UploadEmbedding(n)
           /\ UNCHANGED <<taskVars, latenessVars, routeVars, resolverVars, detectVars>>
    \/ DeleteUserFaceData
           /\ UNCHANGED <<taskVars, latenessVars, routeVars, resolverVars, detectVars>>

SpecVerify == VerifyInit /\ [][VerifyNext]_vars

\* ---------------------------------------------------------- get_embedding
\* The bounding boxes the detector reports: insightface gives bbox as the
\* corners (x1, y1, x2, y2) of the box, x1 < x2 and y1 < y2.
Boxes ==
    { b \in [1..4 -> 0..MaxCoord] : b[1] < b[3] /\ b[2] < b[4] }

\* engine.get(img): the faces in the order of detection, none to MaxFaces.
Detections ==
    UNION { [1..n -> [bbox : Boxes]] : n \in 0..MaxFaces }

\* Width times height of the bounding box of a face.
Area(f) == (f.bbox[3] - f.bbox[1]) * (f.bbox[4] - f.bbox[2])

\* The key of line 96: f.bbox[2] * f.bbox[3] (Python counts from 0).
Key(f) == f.bbox[3] * f.bbox[4]

\* max(faces, key=...): the first face among those with the largest key.
MaxByKey(fs) ==
    CHOOSE i \in DOMAIN fs :
        /\ \A j \in DOMAIN fs : Key(fs[j]) <= Key(fs[i])
        /\ \A j \in DOMAIN fs : j < i => Key(fs[j]) < Key(fs[i])

\* get_embedding (lines 88-97) on an image for which the detector returns
\* fs: None (index 0) without faces, else the embedding of the face max
\* selects.
GetEmbeddingOf(fs) ==
    /\ faces' = fs
    /\ chosen' = [called |-> TRUE,
                  index |-> IF fs = << >> THEN 0 ELSE MaxByKey(fs)]
    /\ UNCHANGED <<folder, vres>>

DetectNext ==
    \E fs \in Detections :
        GetEmbeddingOf(fs)
        /\ UNCHANGED <<taskVars, latenessVars, routeVars, resolverVars>>

SpecDetect == Init /\ [][DetectNext]_vars

\* ------------------------------------------------------------- properties
Started(e) == pc[e] # "idle"
Done(e) == pc[e] = "done"
IsCheckin(e) == payload[e].kind = "checkin"
IsCheckout(e) == payload[e].kind = "checkout"
Carries(e, c) == IsCheckin(e) /\ payload[e].correlation_id = c

\* The rows bound to correlation id c.
RowsOf(c) == {i \in DOMAIN absensi : absensi[i].correlation_id = c}

\* Every check-in execution that carries c carries user u.
OnlyUser(c, u) == \A e \in Exec : Carries(e, c) => payload[e].user_id = u

\* c was not bound to a row when e started.
UnboundAtStart(e, c) == ByCorrelation(atStart[e], c) = NoId

\* C1: for any interleaving of check-in executions that carry the same
\* correlation id and the same user id, at most one row with that
\* correlation id is ever stored, and every execution that returns reports
\* status ok with the id of the one row bound to the correlation id (a row
\* of that user), so all of them report the same id.
C1_ConcurrentDuplicates ==
    \A c \in Corrs : \A u \in Users :
        OnlyUser(c, u) =>
            /\ Cardinality(RowsOf(c)) <= 1
            /\ \A e \in Exec :
                   (Done(e) /\ Carries(e, c)) =>
                       /\ result[e].status = "ok"
                       /\ RowsOf(c) = {result[e].absensi_id}
                       /\ absensi[result[e].absensi_id].id_user = u

\* Two executions of the same user and correlation id both passed the
\* lookup before either committed; one inserted, the other recovered from
\* the uniqueness violation by reading again.
C1_Witness ==
    \E c \in Corrs : \E e, f \in Exec :
        /\ e # f /\ Done(e) /\ Done(f) /\ Carries(e, c) /\ Carries(f, c)
        /\ payload[e].user_id = payload[f].user_id
        /\ UnboundAtStart(e, c) /\ UnboundAtStart(f, c)
        /\ result[e] = Ok(MsgCheckinSaved, result[e].absensi_id, FALSE)
        /\ result[f] = Ok(MsgCheckinReplay, result[e].absensi_id, TRUE)

\* C2: check-ins with the same correlation id and user id run one after
\* the other store exactly one row: an execution that starts when the
\* correlation id is already bound returns ok, idempotent = true and the id
\* of that row; the execution that started before it was bound, all others
\* having started after, returns the fresh insert (ok, not idempotent) of
\* the same row.
C2_SequentialReplay ==
    \A c \in Corrs : \A u \in Users :
        OnlyUser(c, u) =>
            \A e \in Exec :
                (Done(e) /\ Carries(e, c)) =>
                    /\ Cardinality(RowsOf(c)) = 1
                    /\ ~UnboundAtStart(e, c) =>
                           result[e] = Ok(MsgCheckinReplay,
                                          ByCorrelation(atStart[e], c), TRUE)
                    /\ ( /\ UnboundAtStart(e, c)
                         /\ \A f \in Exec \ {e} :
                                (Started(f) /\ Carries(f, c)) =>
                                    ~UnboundAtStart(f, c) )
                       => result[e] = Ok(MsgCheckinSaved,
                                         ByCorrelation(absensi, c), FALSE)

\* Three check-ins of one user and correlation id, each started after the
\* one before had returned: one fresh insert, two replays.
C2_Witness ==
    \E c \in Corrs :
        /\ \A e \in Exec : Done(e) /\ Carries(e, c)
        /\ OnlyUser(c, payload[1].user_id)
        /\ result[1].message = MsgCheckinSaved
        /\ ~UnboundAtStart(2, c) /\ ~UnboundAtStart(3, c)
        /\ Len(atStart[3]) = 1
        /\ result[2].idempotent /\ result[3].idempotent

\* C3: when the executions (deliveries) of a check-in carrying a
\* correlation id may be lost at any point, before the commit or after it,
\* and the task is delivered again, then once one execution has completed
\* there is exactly one row with that correlation id.
C3_ExactlyOnceEffect ==
    \A c \in Corrs : \A u \in Users :
        ( /\ OnlyUser(c, u)
          /\ \E e \in Exec : Done(e) /\ Carries(e, c) )
        => /\ Cardinality(RowsOf(c)) = 1
           /\ \A i \in RowsOf(c) : absensi[i].id_user = u

\* A delivery was lost after its commit, and the redelivered task completed.
C3_Witness ==
    \E c \in Corrs : \E e, f \in Exec :
        /\ e # f /\ Carries(e, c) /\ Carries(f, c)
        /\ payload[e] = payload[f]
        /\ pc[e] = "crashed" /\ UnboundAtStart(e, c)
        /\ Done(f) /\ ~UnboundAtStart(f, c)
        /\ \A g \in Exec \ {e, f} : ~Carries(g, c)
        /\ result[f].status = "ok"

\* The outcome classes of the error results.
CorrelationConflict(r) ==
    r.status = "error" /\ r.message \in {MsgCorrelationUsed, MsgIntegrityError}
RecordNotFound(r) ==
    r.status = "error" /\ r.message \in {MsgNotFound, MsgNotFoundForUser}

\* No two rows share a non-null correlation id.
CorrelationUnique ==
    \A i, j \in DOMAIN absensi :
        (i # j /\ absensi[i].correlation_id # NoCorr)
            => absensi[i].correlation_id # absensi[j].correlation_id

\* A step keeps every row that has a correlation id, with its id, its
\* correlation id and its user.
BindingKept ==
    \A i \in DOMAIN absensi :
        absensi[i].correlation_id # NoCorr =>
            /\ i \in DOMAIN absensi'
            /\ absensi'[i].id_absensi = absensi[i].id_absensi
            /\ absensi'[i].correlation_id = absensi[i].correlation_id
            /\ absensi'[i].id_user = absensi[i].id_user

\* C4: in every reachable state no two rows share a non-null correlation
\* id, and every step of a check-in or check-out leaves a row that has a
\* correlation id bound to the same id, correlation id and user.
C4_CorrelationBinding == []CorrelationUnique /\ [][BindingKept]_vars

\* A row with a correlation id was checked out, and a second check-in with
\* that correlation id has returned.
C4_Witness ==
    \E c \in Corrs : \E i \in DOMAIN absensi : \E e \in Exec :
        /\ absensi[i].correlation_id = c
        /\ absensi[i].waktu_pulang # NoTime
        /\ Done(e) /\ Carries(e, c) /\ ~UnboundAtStart(e, c)

\* c is bound in table tbl to a row of a user other than u.
BoundToOther(tbl, c, u) ==
    c # NoCorr /\ \E i \in DOMAIN tbl :
        tbl[i].correlation_id = c /\ tbl[i].id_user # u

\* The step in which execution e starts, as a check-in whose correlation id
\* is bound to a row of another user.
StartsConflicting(e) ==
    /\ pc[e] = "idle" /\ pc'[e] # "idle"
    /\ payload'[e].kind = "checkin"
    /\ BoundToOther(absensi, payload'[e].correlation_id, payload'[e].user_id)

\* C5: a check-in that starts when its correlation id is bound to a row of
\* another user ends at once with the correlation-conflict error and leaves
\* the table as it is: no row inserted, no row changed; an execution that
\* has returned never acts again.
C5_ConflictingCheckin ==
    [][\A e \in Exec :
          /\ StartsConflicting(e) =>
                 /\ pc'[e] = "done"
                 /\ result'[e] = Error(MsgCorrelationUsed)
                 /\ absensi' = absensi
          /\ pc[e] = "done" => (pc'[e] = "done" /\ result'[e] = result[e])
      ]_vars

\* A check-in of u2 has returned the conflict for a correlation id bound to
\* a row of u1.
C5_Witness ==
    \E e \in Exec : \E i \in DOMAIN absensi :
        /\ Done(e) /\ IsCheckin(e)
        /\ absensi[i].correlation_id = payload[e].correlation_id
        /\ absensi[i].correlation_id # NoCorr
        /\ absensi[i].id_user # payload[e].user_id
        /\ ~UnboundAtStart(e, payload[e].correlation_id)
        /\ result[e] = Error(MsgCorrelationUsed)

\* The check-in columns of row i are those of payload p.
CheckinOf(i, p) ==
    /\ absensi[i].id_user = p.user_id
    /\ absensi[i].correlation_id = p.correlation_id
    /\ absensi[i].waktu_masuk = p.now_local_iso
    /\ absensi[i].id_lokasi_datang = LocationAt(p.now_local_iso).id
    /\ absensi[i].in_latitude = LocationAt(p.now_local_iso).lat
    /\ absensi[i].in_longitude = LocationAt(p.now_local_iso).lng
    /\ absensi[i].face_verified_masuk = p.face_verified

\* Execution w inserted the one row bound to c and execution l failed.
WinsOver(w, l, c) ==
    /\ result[w] = Ok(MsgCheckinSaved, result[w].absensi_id, FALSE)
    /\ RowsOf(c) = {result[w].absensi_id}
    /\ CheckinOf(result[w].absensi_id, payload[w])
    /\ CorrelationConflict(result[l])
    /\ \A i \in DOMAIN absensi : absensi[i].id_user = payload[l].user_id
           => absensi[i].correlation_id # c

\* C6: two check-ins with the same correlation id and different users that
\* both passed the lookup before either committed (no other check-in
\* carries the correlation id): exactly one row is stored, with the
\* check-in columns of the execution that returns the fresh insert; the
\* other returns a correlation-conflict error and no row of its user
\* carries the correlation id.
C6_RaceOfTwoUsers ==
    \A c \in Corrs : \A e, f \in Exec :
        ( /\ e # f /\ Done(e) /\ Done(f) /\ Carries(e, c) /\ Carries(f, c)
          /\ payload[e].user_id # payload[f].user_id
          /\ UnboundAtStart(e, c) /\ UnboundAtStart(f, c)
          /\ \A g \in Exec \ {e, f} : ~Carries(g, c) )
        => (WinsOver(e, f, c) \/ WinsOver(f, e, c))

\* Both executions passed the lookup, one inserted and the other got the
\* uniqueness violation re-raised.
C6_Witness ==
    \E c \in Corrs : \E e, f \in Exec :
        /\ e # f /\ Done(e) /\ Done(f) /\ Carries(e, c) /\ Carries(f, c)
        /\ payload[e].user_id # payload[f].user_id
        /\ UnboundAtStart(e, c) /\ UnboundAtStart(f, c)
        /\ result[e].message = MsgCheckinSaved
        /\ result[f] = Error(MsgIntegrityError)

\* The row a check-out payload p resolves to in table tbl (lines 203-212):
\* by absensi_id, and when that finds nothing by (correlation_id, id_user).
Target(tbl, p) ==
    IF GetAbsensi(tbl, p.absensi_id) # NoId THEN GetAbsensi(tbl, p.absensi_id)
    ELSE IF p.correlation_id # NoCorr
    THEN ByCorrelationAndUser(tbl, p.correlation_id, p.user_id)
    ELSE NoId

\* The check-out columns of row i are those of payload p.
CheckoutOf(i, p) ==
    /\ absensi[i].waktu_pulang = p.now_local_iso
    /\ absensi[i].id_lokasi_pulang = LocationAt(p.now_local_iso).id
    /\ absensi[i].out_latitude = LocationAt(p.now_local_iso).lat
    /\ absensi[i].out_longitude = LocationAt(p.now_local_iso).lng
    /\ absensi[i].face_verified_pulang = p.face_verified
    /\ absensi[i].status_pulang = TEPAT

\* Execution f is a second check-out call on row r after execution e: e
\* returned the fresh check-out of r, f is a check-out of the same user
\* that started when r was already checked out and resolves to r, and no
\* third check-out runs.
SecondCheckout(e, f, r) ==
    /\ e # f /\ IsCheckout(e) /\ IsCheckout(f)
    /\ Done(e) /\ result[e] = Ok(MsgCheckoutSaved, r, FALSE)
    /\ Started(f) /\ payload[f].user_id = payload[e].user_id
    /\ Target(atStart[f], payload[f]) = r
    /\ atStart[f][r].waktu_pulang # NoTime
    /\ \A g \in Exec \ {e, f} : ~IsCheckout(g)

\* C7: a second check-out call on a row, made after the first one
\* returned, never gets to the update, returns ok with idempotent = true
\* and the same row id, and the row keeps the check-out timestamp,
\* location, coordinates, face flag and status of the first call's payload.
C7_SecondCheckoutIsReplay ==
    \A e, f \in Exec : \A r \in DOMAIN absensi :
        SecondCheckout(e, f, r) =>
            /\ pc[f] # "co_commit"
            /\ Done(f) => result[f] = Ok(MsgCheckoutReplay, r, TRUE)
            /\ CheckoutOf(r, payload[e])

\* The second call carried another timestamp (and location) than the first.
C7_Witness ==
    \E e, f \in Exec : \E r \in DOMAIN absensi :
        /\ SecondCheckout(e, f, r) /\ Done(f)
        /\ payload[f].now_local_iso # payload[e].now_local_iso
        /\ LocationAt(payload[f].now_local_iso)
               # LocationAt(payload[e].now_local_iso)
        /\ result[f].absensi_id = result[e].absensi_id

\* A step leaves the check-out columns of every checked-out row alone.
CheckoutKept ==
    \A i \in DOMAIN absensi :
        absensi[i].waktu_pulang # NoTime =>
            /\ i \in DOMAIN absensi'
            /\ absensi'[i].waktu_pulang = absensi[i].waktu_pulang
            /\ absensi'[i].id_lokasi_pulang = absensi[i].id_lokasi_pulang
            /\ absensi'[i].out_latitude = absensi[i].out_latitude
            /\ absensi'[i].out_longitude = absensi[i].out_longitude
            /\ absensi'[i].face_verified_pulang
                   = absensi[i].face_verified_pulang
            /\ absensi'[i].status_pulang = absensi[i].status_pulang

\* At most one execution reports the fresh check-out of a row.
OneFreshCheckout ==
    \A e, f \in Exec :
        ( /\ e # f /\ Done(e) /\ Done(f)
          /\ result[e].message = MsgCheckoutSaved
          /\ result[f].message = MsgCheckoutSaved )
        => result[e].absensi_id # result[f].absensi_id

\* C8: for any interleaving of check-out executions the check-out columns
\* of a row are written at most once (no step changes them once the
\* check-out timestamp is set) and at most one execution reports a
\* non-idempotent success for a row.
C8_CheckoutWrittenOnce == []OneFreshCheckout /\ [][CheckoutKept]_vars

\* The row a check-out names, by absensi_id or else by correlation id, in
\* the table tbl, whoever owns it (NoId: none).
Named(tbl, p) ==
    IF GetAbsensi(tbl, p.absensi_id) # NoId THEN GetAbsensi(tbl, p.absensi_id)
    ELSE IF p.correlation_id # NoCorr THEN ByCorrelation(tbl, p.correlation_id)
    ELSE NoId

\* A returned check-out that named, when it started, a row of another user
\* has the not-found error.
ForeignIsNotFound ==
    \A e \in Exec :
        ( /\ Done(e) /\ IsCheckout(e)
          /\ Named(atStart[e], payload[e]) # NoId
          /\ atStart[e][Named(atStart[e], payload[e])].id_user
                 # payload[e].user_id )
        => RecordNotFound(result[e])

\* A step that changes a row is the commit of a check-out that carries the
\* user id of the row's owner.
OnlyOwnerWrites ==
    \A i \in DOMAIN absensi :
        (i \in DOMAIN absensi' /\ absensi'[i] # absensi[i]) =>
            \E e \in Exec :
                /\ IsCheckout(e) /\ pc[e] = "co_commit" /\ pc'[e] # pc[e]
                /\ payload[e].user_id = absensi[i].id_user

\* C9: a check-out never changes a row whose owner differs from the
\* payload's user id, whether the row is named by absensi_id or by
\* correlation id: it returns the not-found error, and every change of a
\* row is made by a check-out carrying the owner's user id.
C9_ForeignCheckout == []ForeignIsNotFound /\ [][OnlyOwnerWrites]_vars

\* A check-out of one user on a row of the other, by absensi_id, and one by
\* correlation id, both returned; the row is still not checked out.
C9_Witness ==
    \E e, f \in Exec : \E i \in DOMAIN absensi :
        /\ e # f /\ Done(e) /\ Done(f) /\ IsCheckout(e) /\ IsCheckout(f)
        /\ absensi[i].id_user # payload[e].user_id
        /\ absensi[i].id_user # payload[f].user_id
        /\ payload[e].absensi_id = i /\ i \in DOMAIN atStart[e]
        /\ result[e] = Error(MsgNotFoundForUser)
        /\ payload[f].absensi_id = NoId
        /\ payload[f].correlation_id = absensi[i].correlation_id
        /\ i \in DOMAIN atStart[f]
        /\ result[f] = Error(MsgNotFound)
        /\ absensi[i].waktu_pulang = NoTime

\* C10: in every reachable state the check-out timestamp of a row is null
\* or not before its check-in timestamp.
C10_CheckoutNotBeforeCheckin ==
    \A i \in DOMAIN absensi :
        \/ absensi[i].waktu_pulang = NoTime
        \/ absensi[i].waktu_pulang >= absensi[i].waktu_masuk

\* A step creates rows only by the commit of a check-in, with the check-out
\* columns null.
CreatedByCheckin ==
    \A i \in DOMAIN absensi' :
        i \notin DOMAIN absensi =>
            /\ absensi'[i].waktu_pulang = NoTime
            /\ absensi'[i].id_lokasi_pulang = NoLoc
            /\ absensi'[i].status_pulang = NoStatus
            /\ \E e \in Exec :
                   IsCheckin(e) /\ pc[e] = "ci_commit" /\ pc'[e] # pc[e]

\* A step deletes no row, and a row that is not checked out either stays
\* as it is or becomes checked out with its check-in columns kept.
CheckedInMovesOn ==
    \A i \in DOMAIN absensi :
        /\ i \in DOMAIN absensi'
        /\ absensi[i].waktu_pulang = NoTime =>
               \/ absensi'[i] = absensi[i]
               \/ /\ absensi'[i].waktu_pulang # NoTime
                  /\ absensi'[i].waktu_masuk = absensi[i].waktu_masuk
                  /\ absensi'[i].id_user = absensi[i].id_user

\* A step leaves every checked-out row exactly as it is.
CheckedOutIsTerminal ==
    \A i \in DOMAIN absensi :
        absensi[i].waktu_pulang # NoTime =>
            (i \in DOMAIN absensi' /\ absensi'[i] = absensi[i])

\* C11: every row follows NONE -> CHECKED_IN -> CHECKED_OUT: rows are
\* created only by a check-in and with a null check-out timestamp, no step
\* deletes a row or sets a check-out timestamp back to null, and no step
\* changes a row that is checked out.
C11_Lifecycle ==
    [][CreatedByCheckin /\ CheckedInMovesOn /\ CheckedOutIsTerminal]_vars

\* The shifts the schedule assigns to the event's user on the event's date.
Assigned ==
    { j \in schedule : j.id_user = event.user_id
                       /\ DateOf(j.tanggal) = DateOf(event.now_local_iso) }

\* C15: the status the check-in writes is LATE exactly when the user has a
\* shift on the event's date and the event's time of day is strictly after
\* the start of that shift; it is ON_TIME when the time of day is equal to
\* or before the start, and ON_TIME when the user has no shift on that date.
C15_Lateness ==
    event.kind = "checkin" =>
        /\ written.status_masuk \in {TEPAT, TERLAMBAT}
        /\ written.status_masuk = TERLAMBAT <=>
               \E j \in Assigned :
                   TimeOf(event.now_local_iso) > j.jam_mulai_kerja
        /\ (\E j \in Assigned :
                TimeOf(event.now_local_iso) <= j.jam_mulai_kerja)
               => written.status_masuk = TEPAT
        /\ Assigned = {} => written.status_masuk = TEPAT
        /\ written.id_jadwal_shift \in
               {j.id_jadwal_shift : j \in Assigned} \cup {NoShift}

\* A check-in exactly at the start of the user's shift (ON_TIME), in a
\* schedule where the same user has an earlier start on the other date and
\* another user an earlier start on the same date.
C15_Witness ==
    /\ event.kind = "checkin"
    /\ written.status_masuk = TEPAT
    /\ \E j \in Assigned :
           /\ j.jam_mulai_kerja = TimeOf(event.now_local_iso)
           /\ j.jam_mulai_kerja > 0
    /\ \E j \in schedule :
           /\ j.id_user = event.user_id
           /\ DateOf(j.tanggal) # DateOf(event.now_local_iso)
           /\ j.jam_mulai_kerja < TimeOf(event.now_local_iso)
    /\ \E j \in schedule :
           /\ j.id_user # event.user_id
           /\ DateOf(j.tanggal) = DateOf(event.now_local_iso)
           /\ j.jam_mulai_kerja < TimeOf(event.now_local_iso)

\* The payloads that create or complete a row with a true face flag.
FaceFlagged == {q \in queue : q.payload.face_verified}

\* C12: a check-in or check-out task is enqueued, and so a row is created
\* or completed with its face-verified flag true, only if verify_user
\* returned a positive match of the probe image against the claimed user.
C12_OnlyMatchedProbes ==
    \A q \in queue : q \in FaceFlagged /\ q.verified = "match"

\* The stages of a request, in the order the routes run them.
Pipeline == <<"token", "permission", "verify", "enqueue">>
IsPrefix(a, b) ==
    Len(a) <= Len(b) /\ \A i \in 1..Len(a) : a[i] = b[i]

\* The request answered last enqueued nothing when it was refused.
RefusedEnqueuesNothing ==
    (rpc = "idle" /\ response \in {400, 401, 403, 404, 500}) =>
        /\ \A q \in queue : q.request # served - 1
        /\ Len(steps) < Len(Pipeline)

\* Every payload in the queue was put there for a request that has passed
\* the token check, the permission check and a verify_user call that
\* returned.
EnqueuedAfterChecks ==
    \A q \in queue :
        /\ q.sub \in Subs /\ AuthUserId(q.sub) # ""
        /\ q.verified # "none"

\* A step that enqueues is the last stage of a request that has passed the
\* three other stages in order, and it enqueues one payload.
EnqueueIsLast ==
    queue' # queue =>
        /\ steps = SubSeq(Pipeline, 1, 3)
        /\ steps' = Pipeline
        /\ request.token.valid /\ verified # "none"
        /\ \E q \in queue' : queue' = queue \cup {q} /\ q.request = served
        /\ response' = 200

\* C13: every check-in and check-out request passes token verification,
\* then the permission check, then the synchronous face verification, then
\* the enqueue, in this order; a request refused by one of the first three
\* (401, 403, an error raised by the verification) enqueues no task.
C13_Pipeline ==
    /\ [](IsPrefix(steps, Pipeline) /\ RefusedEnqueuesNothing
          /\ EnqueuedAfterChecks)
    /\ [][EnqueueIsLast]_vars

\* One request went through to the enqueue; the next one passed the token
\* and permission checks and was refused by the face verification.
C13_Witness ==
    /\ served = 2 /\ rpc = "idle"
    /\ response \in {404, 500}
    /\ steps = <<"token", "permission">>
    /\ FormOk(request)
    /\ \E q \in queue : queue = {q} /\ q.request = 0

\* C14: the user id of an enqueued payload, and so the owner of the row
\* that is created or checked out, is the user id of the request's token.
C14_PayloadUserIsTokenUser ==
    \A q \in queue : q.payload.user_id = AuthUserId(q.sub)

\* The store holds for user u an override of kind kd ("grant" or "deny")
\* for a permission with key k.
HasOverride(u, k, kd) ==
    \E p \in Permissions :
        /\ PermKey(p.resource, p.action) = k
        /\ store.overrides[u][p.id_permission] = kd

\* A role of user u grants a permission with key k.
RoleGrants(u, k) ==
    \E r \in store.user_roles[u] : \E p \in Permissions :
        /\ p.id_permission \in store.role_permissions[r]
        /\ PermKey(p.resource, p.action) = k

\* C16: the effective permission set of a user is the union of the keys
\* its roles grant with the user's overrides applied afterwards: a key with
\* a deny override is never in the set, whatever the roles grant; a key
\* with a grant override is always in the set, whatever the roles grant; a
\* key without override is in the set exactly when a role grants it.
C16_EffectivePermissions ==
    \A c \in Calls :
        call[c].pc = "done" =>
            LET u == call[c].user_id
                ps == call[c].perm_set
            IN  /\ ps \subseteq Keys
                /\ \A k \in Keys :
                       /\ HasOverride(u, k, "deny") => k \notin ps
                       /\ HasOverride(u, k, "grant") => k \in ps
                       /\ (~HasOverride(u, k, "deny")
                           /\ ~HasOverride(u, k, "grant"))
                              => (k \in ps <=> RoleGrants(u, k))

\* The set was computed for a user with a deny override for a key that a
\* role grants, a grant override for a key that no role grants, and a key
\* held through a role alone.
C16_Witness ==
    \E c \in Calls : \E k1, k2, k3 \in Keys :
        /\ call[c].pc = "done" /\ call[c].user_id = "u1"
        /\ RoleGrants("u1", k1) /\ HasOverride("u1", k1, "deny")
        /\ k1 \notin call[c].perm_set
        /\ ~RoleGrants("u1", k2) /\ HasOverride("u1", k2, "grant")
        /\ k2 \in call[c].perm_set
        /\ RoleGrants("u1", k3) /\ ~HasOverride("u1", k3, "grant")
        /\ k3 \in call[c].perm_set
        /\ k3 = PermKey("absensi", "update")

\* The answer the store as it is now gives for call c.
StoreAnswer(c) ==
    Answer(call[c].key \in ComputeUserPermSet(store, call[c].user_id))

\* C17: the staleness of the permission cache is bounded by the TTL: every
\* call for a user that starts _CACHE_TTL or more after the last committed
\* change of the store returns the answer of the changed store, without any
\* invalidation, also when a recomputation was under way at the time of the
\* change.
C17_StalenessBoundedByTTL ==
    \A c \in Calls :
        (call[c].pc = "done" /\ call[c].user_id # "" /\ call[c].afterTTL)
            => call[c].answer = StoreAnswer(c)

\* C18 (lookup): the call that starts uses the user's entry exactly when it
\* is there and its age is below _CACHE_TTL; then it answers from the
\* entry's set, queries nothing and leaves the cache as it is; otherwise it
\* goes on to the recomputation.
UsesEntryWhenFresh ==
    \A c \in Calls :
        (call[c].pc = "idle" /\ call'[c].pc # "idle"
         /\ call'[c].user_id # "") =>
            LET entry == perm_cache[call'[c].user_id]
                fresh == entry # NoEntry /\ clock - entry.stored < CACHE_TTL
            IN  IF fresh
                THEN /\ call'[c].pc = "done"
                     /\ ~call'[c].readStore
                     /\ call'[c].answer
                            = Answer(call'[c].key \in entry.perm_set)
                     /\ perm_cache' = perm_cache
                ELSE call'[c].pc = "compute"

\* C18 (recomputation): the recomputation reads the set from the store,
\* and when it ends the user's entry is that set with an expiry of
\* _CACHE_TTL from now; the answer is taken from that set.
RecomputeReplacesEntry ==
    \A c \in Calls :
        /\ (call[c].pc = "compute" /\ call'[c].pc # "compute") =>
               /\ call'[c].pc = "store" /\ call'[c].readStore
               /\ call'[c].perm_set
                      = ComputeUserPermSet(store, call[c].user_id)
        /\ (call[c].pc = "store" /\ call'[c].pc # "store") =>
               /\ call'[c].pc = "done"
               /\ perm_cache'[call[c].user_id].perm_set = call[c].perm_set
               /\ perm_cache'[call[c].user_id].expires = clock + CACHE_TTL
               /\ clock - perm_cache'[call[c].user_id].stored = 0
               /\ call'[c].answer
                      = Answer(call[c].key \in call[c].perm_set)

\* C18: a call uses the user's cache entry exactly when the entry is
\* present and younger than the TTL, answering from the cached set without
\* reading the store, so that a change of the store is not observed; when
\* the entry is missing or its age is the TTL or more, the call recomputes
\* from the store and replaces the entry with a fresh expiry.
C18_CacheUse == [][UsesEntryWhenFresh /\ RecomputeReplacesEntry]_vars

\* One call filled the cache, the store changed, a second call answered
\* from the entry against the store, and a third one, started when the
\* entry had reached the age of the TTL, recomputed and replaced it.
C18_Witness ==
    \E c, d, e \in Calls :
        /\ c < d /\ d < e
        /\ call[c].pc = "done" /\ call[d].pc = "done" /\ call[e].pc = "done"
        /\ call[c].user_id = "u1" /\ call[d].user_id = "u1"
        /\ call[e].user_id = "u1"
        /\ call[c].readStore /\ ~call[d].readStore /\ call[e].readStore
        /\ call[d].answer # StoreAnswer(d)
        /\ call[e].answer = StoreAnswer(e)
        /\ call[e].afterTTL /\ invalidated = {}
        /\ perm_cache["u1"].perm_set = ComputeUserPermSet(store, "u1")
        /\ changes = 1
        /\ perm_cache["u1"].expires = clock + CACHE_TTL

\* C19: after clear_perm_cache(U) has returned, following a committed
\* change of the store for U, every later call for U returns the answer of
\* the changed store, in every interleaving, also when a recomputation
\* that read the store before the change was under way at the time.
C19_InvalidationTakesEffect ==
    \A c \in Calls :
        (call[c].pc = "done" /\ call[c].user_id # "" /\ call[c].afterClear)
            => call[c].answer = StoreAnswer(c)

\* A call with an empty user id that has started has ended with the
\* answer false, without a query.
EmptyUserDenied ==
    \A c \in Calls :
        (call[c].pc # "idle" /\ call[c].user_id = "") =>
            /\ call[c].pc = "done"
            /\ call[c].answer = Answer(FALSE)
            /\ ~call[c].readStore
            /\ call[c].perm_set = {}

\* The step of a call with an empty user id leaves the cache and the store
\* as they are; the cache never has an entry for the empty user id, and
\* the subjects that give an empty user id are the absent one and blanks.
EmptyUserTouchesNothing ==
    /\ \A c \in Calls :
           (call[c].pc = "idle" /\ call'[c].pc # "idle"
                /\ call'[c].user_id = "") =>
               (perm_cache' = perm_cache /\ store' = store)
    /\ perm_cache[""] = NoEntry
    /\ \A c \in Calls :
           (call[c].pc # "idle" /\ call[c].sub \in {NoSub, "", " "})
               => call[c].user_id = ""

\* C20: a call with an absent or empty user id always returns false,
\* without reading the store and without creating or changing a cache
\* entry; a request whose token has no subject is so always denied.
C20_EmptyUserIdDenied == []EmptyUserDenied /\ [][EmptyUserTouchesNothing]_vars

\* A call for a token without subject and a call for a token with a blank
\* subject were denied while the cache held an entry of u1.
C20_Witness ==
    \E c, d \in Calls :
        /\ call[c].pc = "done" /\ call[c].sub = NoSub
        /\ call[d].pc = "done" /\ call[d].sub = " "
        /\ call[c].answer = "deny" /\ call[d].answer = "deny"
        /\ perm_cache["u1"] # NoEntry

\* The step in which a recomputation fails ends the call in an error, which
\* is neither of the two answers, and leaves the cache as it was.
FailureLeavesCache ==
    \A c \in Calls :
        (call[c].pc = "compute" /\ call'[c].pc \notin {"compute", "store"}) =>
            /\ call'[c].pc = "raised"
            /\ call'[c].answer \notin {Answer(TRUE), Answer(FALSE)}
            /\ perm_cache' = perm_cache

\* The protected function runs for a call only after the answer true.
HandlerRuns(c) == call[c].pc = "done" /\ call[c].answer = Answer(TRUE)

\* After a failed call the user's entry is still not usable, so that the
\* next call recomputes, unless another call has recomputed with success
\* in the meantime and the entry is the one that call wrote.
FailedCallLeftNoEntry ==
    \A c \in Calls :
        call[c].pc = "raised" =>
            /\ ~HandlerRuns(c)
            /\ LET entry == perm_cache[call[c].user_id]
               IN  (entry # NoEntry /\ entry.expires > clock) =>
                       \E d \in Calls \ {c} :
                           /\ call[d].user_id = call[c].user_id
                           /\ call[d].pc = "done" /\ call[d].readStore
                           /\ entry.perm_set = call[d].perm_set

\* C21: when the store fails during the recomputation of a user's
\* permission set, the call ends in an error and never answers true, the
\* protected function does not run, and the cache is left as it was before
\* the call, with no entry made from a partial result, so that the next
\* call recomputes.
C21_StoreFailureDenies ==
    []FailedCallLeftNoEntry /\ [][FailureLeavesCache]_vars

\* A call of u1 failed at the second query with the role keys collected,
\* the cache has no entry for u1, and the next call of u1 is recomputing.
C21_Witness ==
    \E c, d \in Calls :
        /\ c < d
        /\ call[c].pc = "raised" /\ call[c].user_id = "u1"
        /\ call[c].readStore /\ call[c].perm_set # {}
        /\ perm_cache["u1"] = NoEntry
        /\ call[d].pc = "store" /\ call[d].user_id = "u1"

\* The execution met a failure of the transport to the store.
TransportFailure(e) == result[e].message = MsgOperationalError

\* C22: a storage-transport failure during a check-in or check-out task is
\* re-raised out of the task, so that the queue redelivers it; it does not
\* become a returned result, which the queue takes for a completed task.
C22_TransportFailureReraised ==
    \A e \in Exec : TransportFailure(e) => pc[e] # "done"

\* C23: whenever an execution returns a failure result, the table and
\* every field of every row are as they were before the execution acted:
\* the step that returns the failure writes nothing, and the steps before
\* it never write.
C23_FailureHasNoEffect ==
    [][\A e \in Exec :
           (pc[e] # "done" /\ pc'[e] = "done" /\ result'[e].status = "error")
               => absensi' = absensi]_vars

\* A check-out that decides while no row matches its payload returns the
\* not-found error and leaves the table as it is.
MissingIsNotFound ==
    \A e \in Exec :
        ( /\ pc[e] \in {"idle", "co_query"} /\ pc'[e] = "done"
          /\ payload'[e].kind = "checkout"
          /\ Target(absensi, payload'[e]) = NoId )
        => /\ result'[e] = Error(MsgNotFound)
           /\ absensi' = absensi

\* An execution that has returned does nothing more: the tasks are not
\* retried.
ReturnedIsTerminal ==
    \A e \in Exec :
        pc[e] = "done" =>
            /\ pc'[e] = "done"
            /\ result'[e] = result[e]
            /\ payload'[e] = payload[e]

\* The commit of a check-in that meets no bound correlation id appends the
\* row of its payload, not checked out.
CheckinStillCreates ==
    \A e \in Exec :
        (pc[e] = "ci_commit" /\ pc'[e] = "done"
         /\ ~UniqueViolation(absensi, payload[e].correlation_id)) =>
            /\ absensi' = Append(absensi, absensi'[Len(absensi) + 1])
            /\ absensi'[Len(absensi) + 1].id_user = payload[e].user_id
            /\ absensi'[Len(absensi) + 1].correlation_id
                   = payload[e].correlation_id
            /\ absensi'[Len(absensi) + 1].waktu_masuk
                   = payload[e].now_local_iso
            /\ absensi'[Len(absensi) + 1].waktu_pulang = NoTime

\* A row that matches the payload of a check-out returned as not found is
\* checked out only by another check-out.
CheckedOutByAnother ==
    \A e \in Exec :
        ( /\ Done(e) /\ IsCheckout(e) /\ result[e] = Error(MsgNotFound)
          /\ Target(absensi, payload[e]) # NoId
          /\ absensi[Target(absensi, payload[e])].waktu_pulang # NoTime )
        => \E f \in Exec \ {e} :
               IsCheckout(f) /\ rec[f] = Target(absensi, payload[e])

\* C24: a check-out executed when no matching row exists yet ends in the
\* terminal not-found failure: it creates no row and is not retried; a
\* check-in executed afterwards still creates the row, which stays checked
\* in until another check-out is submitted.
C24_EarlyCheckoutIsTerminal ==
    /\ []CheckedOutByAnother
    /\ [][MissingIsNotFound /\ ReturnedIsTerminal /\ CheckinStillCreates]_vars

\* The check-out by correlation id came first and returned not found, the
\* check-in with that correlation id then created the row, a replay of the
\* check-in returned too, and the row is still checked in.
C24_Witness ==
    \E e, f, g \in Exec :
        /\ e < f /\ f < g
        /\ Done(e) /\ IsCheckout(e) /\ payload[e].absensi_id = NoId
        /\ result[e] = Error(MsgNotFound)
        /\ Done(f) /\ IsCheckin(f)
        /\ payload[f].correlation_id = payload[e].correlation_id
        /\ payload[f].user_id = payload[e].user_id
        /\ result[f] = Ok(MsgCheckinSaved, 1, FALSE)
        /\ Done(g) /\ IsCheckin(g) /\ result[g].idempotent
        /\ Len(absensi) = 1 /\ absensi[1].waktu_pulang = NoTime

\* The step is a call of verify_user (one that is not a repetition of the
\* last call with the same outcome).
VerifyStep == vres' # vres

\* The probe of the call shows no face; the user has neither embedding.npy
\* nor a baseline image when the call is made.
NoFaceDetected(img) == img # "not an image" /\ GetEmbedding(img) = << >>
ProfileNotFound == folder.embedding = << >> /\ folder.baselines = << >>

\* C25: the face-verification endpoint and the check-in / check-out
\* endpoints answer with 404 when no face is detected in the probe image
\* and when the user has neither a stored reference embedding nor baseline
\* images, and with 500 for every other verification failure.
C25_VerifyStatusCodes ==
    [][(VerifyStep /\ vres'.exc # "none") =>
           vres'.status =
               IF NoFaceDetected(vres'.image)
                  \/ (GetEmbedding(vres'.image) # << >> /\ ProfileNotFound)
               THEN 404 ELSE 500]_vars

\* The call reached the loading of the reference with a metric _score
\* knows.
ReachesReference ==
    GetEmbedding(vres'.image) # << >> /\ ~Unsupported(vres'.metric)

\* C26: verify_user uses the stored reference embedding when it can be
\* loaded; only when it is absent does it rebuild the reference as the
\* normalised average of the embeddings of at most the first 3 baseline
\* images; it fails with ProfileNotFound exactly when neither a reference
\* nor a baseline image exists, and a transport failure while loading the
\* reference is not treated as absence.
C26_ReferenceOrBaselines ==
    [][(VerifyStep /\ ReachesReference) =>
           /\ (folder.embedding # << >> /\ vres'.fault # "reference")
                  => vres'.used = "reference"
           /\ vres'.used = "baselines" => folder.embedding = << >>
           /\ vres'.used = "baselines" =>
                  vres'.score =
                      Score(Normalize(SumOf(BaselineEmbeddings(
                                FirstThree(folder.baselines)))),
                            Normalize(GetEmbedding(vres'.image)),
                            vres'.metric)
           /\ (vres'.exc = "FileNotFoundError") <=> ProfileNotFound]_vars

\* C27: under the cosine metric matched is true iff score >= threshold;
\* under the distance metric, where the score is the negated distance,
\* matched is true iff the distance is at most the threshold; so, the
\* cosine scores being at most 1, a threshold above 1 never matches.
C27_MatchDecision ==
    vres.exc = "none" /\ vres.image # "none" =>
        /\ vres.metric = "cosine" =>
               /\ vres.score <= 100
               /\ vres.match <=> ~(vres.score < vres.threshold)
               /\ vres.threshold > 100 => ~vres.match
        /\ vres.metric = "l2" =>
               /\ vres.score <= 0
               /\ vres.match <=> (0 - vres.score) <= vres.threshold

\* The probe equals the reference, score 1, and the threshold 1.1 under
\* the cosine metric gave no match.
C27_Witness ==
    /\ vres.exc = "none" /\ vres.metric = "cosine"
    /\ vres.score = 100 /\ vres.threshold = 110 /\ ~vres.match

\* C28: verify_user called with a metric outside the supported set fails
\* with the invalid-argument error (ValueError) once it has the probe
\* embedding and the reference, and never returns a score or a match
\* decision.
C28_UnsupportedMetric ==
    (vres.image # "none" /\ vres.metric \notin {"cosine", "l2", "none"}) =>
        /\ vres.exc # "none"
        /\ vres.status # 200
        /\ (GetEmbedding(vres.image) # << >>
            /\ vres.cause \notin {"list", "no profile", "baseline download"})
               => vres.exc = "ValueError" /\ vres.cause = "metric"

\* A call with the metric "manhattan", a probe with a face and a stored
\* reference ended with the ValueError of _score.
C28_Witness ==
    /\ vres.metric = "manhattan" /\ vres.used = "reference"
    /\ vres.exc = "ValueError" /\ vres.status = 500

\* C29: verify_user leaves the object storage with the profile, the
\* attendance rows and the permission cache unchanged on every path,
\* successful or failing: it only downloads and lists.
C29_VerifyReadsOnly ==
    [][VerifyStep =>
           /\ folder' = folder
           /\ absensi' = absensi
           /\ perm_cache' = perm_cache /\ store' = store]_vars

\* A call rebuilt the reference from the baselines and matched, and the
\* folder still has no embedding.npy.
C29_Witness ==
    /\ vres.used = "baselines" /\ vres.exc = "none" /\ vres.match
    /\ folder.embedding = << >> /\ Len(folder.baselines) = MaxBaselines

\* The check-in of execution e starts while its correlation id is bound to
\* a record of its user.
ReplayOf(e) ==
    /\ pc[e] = "idle"
    /\ pc'[e] # "idle"
    /\ payload'[e].kind = "checkin"
    /\ payload'[e].correlation_id # NoCorr
    /\ ByCorrelationAndUser(absensi, payload'[e].correlation_id,
                            payload'[e].user_id) # NoId

\* The replayed payload differs from the stored record in timestamp, date,
\* location and coordinates.
DiffersFrom(p, row) ==
    /\ p.now_local_iso # row.waktu_masuk
    /\ DateOf(p.now_local_iso) # DateOf(row.waktu_masuk)
    /\ LocationAt(p.now_local_iso).id # row.id_lokasi_datang
    /\ LocationAt(p.now_local_iso).lat # row.in_latitude
    /\ LocationAt(p.now_local_iso).lng # row.in_longitude

\* C30: an idempotent check-in replay (the correlation id is already bound
\* to a record of the same user) returns at once with the id of that record
\* and idempotent = True, leaves every row of the table as it is and inserts
\* nothing, whatever timestamp, date, location and coordinates the replayed
\* payload carries and whether or not the record is checked out already.
C30_ReplayChangesNothing ==
    [][\A e \in Exec :
          ReplayOf(e) =>
              /\ absensi' = absensi
              /\ pc'[e] = "done"
              /\ result'[e] =
                     Ok(MsgCheckinReplay,
                        ByCorrelationAndUser(absensi,
                            payload'[e].correlation_id, payload'[e].user_id),
                        TRUE)]_vars

\* A replay has returned for a record that was checked out when the replay
\* started and whose check-in differs from the replayed payload in every
\* respect; the record is as it was.
C30_Witness ==
    \E e \in Exec :
        /\ pc[e] = "done"
        /\ payload[e].kind = "checkin"
        /\ result[e].message = MsgCheckinReplay
        /\ result[e].idempotent
        /\ result[e].absensi_id \in DOMAIN atStart[e]
        /\ atStart[e][result[e].absensi_id].waktu_pulang # NoTime
        /\ DiffersFrom(payload[e], atStart[e][result[e].absensi_id])
        /\ absensi = atStart[e]

\* Execution e, a check-out, goes on with row r as its target: it refuses
\* the row of another user, answers a replay for a row checked out already,
\* and otherwise holds r for the update.
TargetIs(e, r) ==
    IF absensi[r].id_user # payload'[e].user_id
    THEN pc'[e] = "done" /\ result'[e] = Error(MsgNotFoundForUser)
    ELSE IF absensi[r].waktu_pulang # NoTime
    THEN pc'[e] = "done" /\ result'[e] = Ok(MsgCheckoutReplay, r, TRUE)
    ELSE pc'[e] = "co_commit" /\ rec'[e] = r

\* Execution e runs the query by (correlation_id, id_user) in this step.
QueriesByCorrelation(e) ==
    \/ pc[e] = "co_query" /\ pc'[e] \notin {"co_query", "crashed"}
    \/ /\ pc[e] = "idle"
       /\ payload'[e].kind = "checkout"
       /\ payload'[e].absensi_id = NoId
       /\ payload'[e].correlation_id # NoCorr

\* Execution e starts a check-out with an absensi_id in this step.
GetsById(e) ==
    /\ pc[e] = "idle"
    /\ payload'[e].kind = "checkout"
    /\ payload'[e].absensi_id # NoId

\* C31: a check-out with an absensi_id of an existing record has that
\* record as its target, whatever its correlation id names; when that
\* record belongs to another user the call fails, also when the correlation
\* id names a record of the caller.  Only when no record has the
\* absensi_id (or none is given) is the target the record matching both the
\* correlation id and the user, and the update is applied to the target.
C31_CheckoutTarget ==
    [][\A e \in Exec :
          /\ (GetsById(e) /\ payload'[e].absensi_id \in DOMAIN absensi)
                 => TargetIs(e, payload'[e].absensi_id)
          /\ (GetsById(e) /\ payload'[e].absensi_id \notin DOMAIN absensi)
                 => IF payload'[e].correlation_id # NoCorr
                    THEN pc'[e] = "co_query"
                    ELSE pc'[e] = "done" /\ result'[e] = Error(MsgNotFound)
          /\ QueriesByCorrelation(e)
                 => LET r == ByCorrelationAndUser(absensi,
                                 payload'[e].correlation_id,
                                 payload'[e].user_id)
                    IN  IF r = NoId
                        THEN pc'[e] = "done" /\ result'[e] = Error(MsgNotFound)
                        ELSE TargetIs(e, r)
          /\ (pc[e] = "co_commit" /\ pc'[e] = "done")
                 => /\ result'[e].absensi_id = rec[e]
                    /\ \A i \in DOMAIN absensi :
                           i # rec[e] => absensi'[i] = absensi[i]]_vars

\* A check-out named the record of another user by absensi_id and a record
\* of the caller by correlation id, and failed.
C31_Witness ==
    \E e \in Exec :
        /\ pc[e] = "done"
        /\ payload[e].kind = "checkout"
        /\ payload[e].absensi_id \in DOMAIN atStart[e]
        /\ atStart[e][payload[e].absensi_id].id_user # payload[e].user_id
        /\ payload[e].correlation_id # NoCorr
        /\ ByCorrelationAndUser(atStart[e], payload[e].correlation_id,
                                payload[e].user_id) # NoId
        /\ result[e] = Error(MsgNotFoundForUser)

\* Execution e commits its check-out in this step.
CheckoutCommitted(e) == pc[e] = "co_commit" /\ pc'[e] = "done"

\* status_pulang is set exactly on the records that are checked out, and
\* then it is TEPAT.
StatusPulangIsTepat ==
    \A i \in DOMAIN absensi :
        absensi[i].status_pulang =
            IF absensi[i].waktu_pulang # NoTime THEN TEPAT ELSE NoStatus

\* C32: a successful check-out writes the check-out status TEPAT (on time),
\* for every event timestamp and whether or not the shift of the record has
\* a scheduled end.
C32_CheckoutStatusOnTime ==
    /\ []StatusPulangIsTepat
    /\ [][\A e \in Exec :
             CheckoutCommitted(e) =>
                 absensi'[rec[e]].status_pulang = TEPAT]_vars

\* A record whose shift ends later in the day than the check-out is checked
\* out, on a later day than its check-in, with status TEPAT.
C32_Witness ==
    \E i \in DOMAIN absensi :
        /\ absensi[i].waktu_pulang # NoTime
        /\ DateOf(absensi[i].waktu_pulang) # DateOf(absensi[i].waktu_masuk)
        /\ JamSelesaiKerja(absensi[i].id_jadwal_shift) # NoTime
        /\ TimeOf(absensi[i].waktu_pulang)
               < JamSelesaiKerja(absensi[i].id_jadwal_shift)
        /\ absensi[i].status_pulang = TEPAT

\* The first face among those with the largest bounding-box area.
LargestFirst(fs) ==
    CHOOSE i \in DOMAIN fs :
        /\ \A j \in DOMAIN fs : Area(fs[j]) <= Area(fs[i])
        /\ \A j \in DOMAIN fs : j < i => Area(fs[j]) < Area(fs[i])

\* C33: for several faces get_embedding takes the embedding of the face
\* whose bounding box has the largest area (width x height), the first
\* detected among faces of equal largest area; without a face it returns
\* no embedding (and verification fails).
C33_LargestFaceChosen ==
    chosen.called =>
        chosen.index = IF faces = << >> THEN 0 ELSE LargestFirst(faces)

\* The names of the model, each with the ways of writing it that differ in
\* letter case only.
Spellings ==
    { {"absensi", "Absensi", "ABSENSI"}, {"update", "Update", "UPDATE"},
      {"create", "CREATE"}, {"lokasi", "LOKASI"}, {"read", "READ"} }
SpellingsOf(str) == CHOOSE cls \in Spellings : str \in cls

\* The answer of can() (line 136) for a permission set.
Authorize(perm_set, resource, action) == PermKey(resource, action) \in perm_set

\* What the store says about the permission row p for user u: an override
\* decides, otherwise the roles.
Effective(st, u, p) ==
    IF st.overrides[u][p.id_permission] = "grant" THEN TRUE
    ELSE IF st.overrides[u][p.id_permission] = "deny" THEN FALSE
    ELSE p \in RolePerms(st, u)

\* C34: the answer of can() does not depend on letter case: for every user
\* and every permission row, however resource and action are written on the
\* row and in the request, the answer is what the store says about the row.
C34_CaseInsensitive ==
    \A c \in Calls :
        call[c].pc = "done" =>
            \A p \in Permissions :
            \A resource \in SpellingsOf(p.resource) :
            \A action \in SpellingsOf(p.action) :
                Authorize(call[c].perm_set, resource, action)
                    = Effective(store, call[c].user_id, p)

\* A user holds the permission stored as "Absensi" / "UPDATE" and is
\* answered yes for "absensi" / "update" and for "ABSENSI" / "Update".
C34_Witness ==
    \E c \in Calls :
        /\ call[c].pc = "done"
        /\ Effective(store, call[c].user_id, PermissionById("p2"))
        /\ PermissionById("p2").resource = "Absensi"
        /\ PermissionById("p2").action = "UPDATE"
        /\ Authorize(call[c].perm_set, "absensi", "update")
        /\ Authorize(call[c].perm_set, "ABSENSI", "Update")

\* What clear_perm_cache(u) is to do to the cache.
Cleared(u) ==
    /\ u # "" => /\ perm_cache'[u] = NoEntry
                 /\ \A v \in DOMAIN perm_cache :
                        v # u => perm_cache'[v] = perm_cache[v]
    /\ u = "" => \A v \in DOMAIN perm_cache : perm_cache'[v] = NoEntry
    /\ (u # "" /\ perm_cache[u] = NoEntry) => perm_cache' = perm_cache
    /\ store' = store

\* C35: clear_perm_cache with a user id removes the entry of that user and
\* leaves the entry of every other user (set and expiry) as it is; with no
\* or an empty user id it removes all entries; it never changes the store,
\* and for a user without entry it changes nothing.
C35_ClearPermCacheFrame ==
    [][\A u \in ClearArgs : ClearPermCache(u) => Cleared(u)]_vars

\* The entry of u1, stored by a call, has been removed while u2 has its
\* entry.
C35_Witness ==
    /\ \E c \in Calls :
           /\ call[c].user_id = "u1"
           /\ call[c].pc = "done"
           /\ call[c].readStore
    /\ perm_cache["u1"] = NoEntry
    /\ perm_cache["u2"] # NoEntry
    /\ perm_cache["u2"].perm_set = ComputeUserPermSet(store, "u2")

\* The token of the request is absent, malformed, wrongly signed or
\* expired at the time now.
Unauthenticated(tk, now) ==
    \/ ~tk.present
    \/ tk.segments # 3
    \/ tk.signature # "good"
    \/ tk.payload # "object"
    \/ tk.exp # NoTime /\ ~tk.exp_number
    \/ tk.exp # NoTime /\ now >= tk.exp

\* The user of the token payload in flask.g lacks absensi:create.
LacksPermission ==
    \/ AuthUserId(flask_g) = ""
    \/ PermKey("absensi", "create")
           \notin ComputeUserPermSet(store, AuthUserId(flask_g))

\* C36: a request without token or with a malformed, wrongly signed or
\* expired token (now >= exp) is answered 401 and neither the permission
\* check nor the route function runs; a request with a valid token whose
\* user lacks the permission is answered 403 and the route function does
\* not run.
C36_Unauthorized401Forbidden403 ==
    [][/\ (rpc = "token_required" /\ rpc' # rpc)
              => IF Unauthenticated(request.token, clock)
                 THEN rpc' = "idle" /\ response' = 401 /\ steps' = steps
                 ELSE rpc' = "require_permission"
       /\ (rpc = "require_permission" /\ rpc' # rpc)
              => IF LacksPermission
                 THEN rpc' = "idle" /\ response' = 403 /\ steps' = steps
                 ELSE rpc' = "handler"
       /\ (rpc' = "handler" /\ rpc # rpc') => rpc = "require_permission"
      ]_vars

\* Execution e is a check-in without correlation id.
Uncorrelated(e) ==
    payload[e].kind = "checkin" /\ payload[e].correlation_id = NoCorr

\* Every check-in without correlation id that has returned has created a
\* record of its own, with the user and the event time of its payload.
EachCreatedItsOwn ==
    /\ \A e \in Exec :
           (Uncorrelated(e) /\ pc[e] = "done") =>
               /\ result[e].status = "ok"
               /\ ~result[e].idempotent
               /\ result[e].absensi_id \in DOMAIN absensi
               /\ absensi[result[e].absensi_id].id_user = payload[e].user_id
               /\ absensi[result[e].absensi_id].waktu_masuk
                      = payload[e].now_local_iso
               /\ absensi[result[e].absensi_id].correlation_id = NoCorr
    /\ \A e, f \in Exec :
           (Uncorrelated(e) /\ Uncorrelated(f) /\ pc[e] = "done"
            /\ pc[f] = "done" /\ e # f)
               => result[e].absensi_id # result[f].absensi_id

\* C37: a check-in without correlation id is not deduplicated: it always
\* goes on to the insert, whatever the table holds, and the insert adds a
\* new record; N deliveries of the same payload leave N records of the same
\* user and event.
C37_NoDeduplicationWithoutCorrelation ==
    /\ []EachCreatedItsOwn
    /\ [][\A e \in Exec :
             /\ (pc[e] = "idle" /\ pc'[e] # "idle"
                 /\ payload'[e].kind = "checkin"
                 /\ payload'[e].correlation_id = NoCorr)
                    => pc'[e] = "ci_commit"
             /\ (Uncorrelated(e) /\ pc[e] = "ci_commit" /\ pc'[e] = "done")
                    => Len(absensi') = Len(absensi) + 1]_vars

\* The same payload without correlation id was delivered NumExec times and
\* there are as many records of that user and event.
C37_Witness ==
    /\ \A e \in Exec : Uncorrelated(e) /\ pc[e] = "done"
    /\ \A e \in Exec : payload[e] = payload[1]
    /\ Len(absensi) = NumExec
    /\ \A i \in DOMAIN absensi :
           /\ absensi[i].id_user = payload[1].user_id
           /\ absensi[i].waktu_masuk = payload[1].now_local_iso

\* The row with its check-out columns set to those of the row old.
WithCheckoutOf(row, old) ==
    [row EXCEPT !.waktu_pulang = old.waktu_pulang,
                !.id_lokasi_pulang = old.id_lokasi_pulang,
                !.out_latitude = old.out_latitude,
                !.out_longitude = old.out_longitude,
                !.face_verified_pulang = old.face_verified_pulang,
                !.status_pulang = old.status_pulang]

\* C38: a successful check-out changes only the check-out columns of its
\* target record (time, location, coordinates, face flag and status of the
\* check-out): owner, correlation id, shift, and time, status, location,
\* coordinates and face flag of the check-in stay as they are, no other
\* record changes and none is added or removed.
C38_CheckoutFrame ==
    [][\A e \in Exec :
          CheckoutCommitted(e) =>
              /\ DOMAIN absensi' = DOMAIN absensi
              /\ \A i \in DOMAIN absensi :
                     i # rec[e] => absensi'[i] = absensi[i]
              /\ WithCheckoutOf(absensi'[rec[e]], absensi[rec[e]])
                     = absensi[rec[e]]
              /\ absensi'[rec[e]].waktu_pulang = payload[e].now_local_iso]_vars

\* A check-out by absensi_id, without correlation id, was saved on a record
\* that has a correlation id, while the table holds another record.
C38_Witness ==
    \E e \in Exec :
        /\ payload[e].kind = "checkout"
        /\ payload[e].correlation_id = NoCorr
        /\ pc[e] = "done"
        /\ result[e].message = MsgCheckoutSaved
        /\ Len(absensi) >= 2
        /\ absensi[result[e].absensi_id].correlation_id # NoCorr
        /\ absensi[result[e].absensi_id].waktu_pulang = payload[e].now_local_iso

\* The answer of can() computed from the store, without cache.
Recomputed(u, k) == Answer(u # "" /\ k \in ComputeUserPermSet(store, u))

\* C39: while the store does not change, can() through the cache answers
\* every call as a recomputation of the permission set from the store
\* would, for every sequence of calls and clear_perm_cache and however time
\* passes; what the cache holds for a user is that user's permission set.
C39_CacheAgreesWithStore ==
    /\ \A c \in Calls :
           call[c].pc = "done" =>
               call[c].answer = Recomputed(call[c].user_id, call[c].key)
    /\ \A u \in Users :
           perm_cache[u] # NoEntry =>
               perm_cache[u].perm_set = ComputeUserPermSet(store, u)

\* Calls were answered from the cache and from the store, for a user who is
\* denied and for one who is allowed, and an entry was stored again after
\* time had passed.
C39_Witness ==
    /\ \E c \in Calls :
           call[c].pc = "done" /\ ~call[c].readStore /\ call[c].answer = "deny"
    /\ \E c \in Calls :
           call[c].pc = "done" /\ call[c].readStore /\ call[c].answer = "allow"
    /\ \E u \in Users : perm_cache[u] # NoEntry /\ perm_cache[u].stored > 0

====
